---- MODULE Spec2Model ----
(***************************************************************************)
(* Request queue and safe-update pipeline of ioi-israel/server-utils.      *)
(*                                                                         *)
(* Processes:                                                              *)
(*   worker  auto/RequestHandler.py  main(): startup drain, then the       *)
(*           pyinotify loop; it may crash and be restarted.                *)
(*   ingest  auto/GitoliteRequest.py main(): one run per push.             *)
(*   other   another user of "with SafeUpdater()": a second worker's _act  *)
(*           or an operator's script (auto/SafeUpdater.py, lines 7-10).    *)
(*                                                                         *)
(* Two flufl.lock leases: the mailbox lock (<requests>/.lock) and the      *)
(* repository lock (LOCK_FILE).  Time is abstracted: a lease passing its   *)
(* lifetime and a waiter passing its timeout are environment events.       *)
(***************************************************************************)
EXTENDS Integers, Sequences, FiniteSets, TLC

\* ---------------------------------------------------------------- bounds
MaxNames == 3
MaxPushes == 2
MaxCrashes == 1
MaxOther == 1
MaxInitial == 1
\* Pushes, crashes and other updaters of one run, together.
MaxEnv == 2

\* Record filenames, abstracted to their rank in lexicographic order.
Names == 1..MaxNames

\* ------------------------------------------------------- request content
\* A YAML scalar: a string (split at "/" into segments) or a non-string.
StrVal(segs) == [ty |-> "str", segs |-> segs]
IntVal == [ty |-> "int", segs |-> <<>>]
NoVal == [ty |-> "none", segs |-> <<>>]

\* What yaml.safe_load gives for a file: a mapping, another value, or an error.
MapOf(keys, user, repo) == [ty |-> "map", keys |-> keys, user |-> user, repo |-> repo]
NotDict == [ty |-> "list", keys |-> {}, user |-> NoVal, repo |-> NoVal]
Garbage == [ty |-> "garbage", keys |-> {}, user |-> NoVal, repo |-> NoVal]
Absent == [ty |-> "absent", keys |-> {}, user |-> NoVal, repo |-> NoVal]
ReadError == [ty |-> "error", keys |-> {}, user |-> NoVal, repo |-> NoVal]
NoRequest == [ty |-> "nothing", keys |-> {}, user |-> NoVal, repo |-> NoVal]

Joe == StrVal(<<"joe">>)

\* A record file as text: what yaml.safe_dump writes for a mapping of two
\* strings.  A scalar is written plain, or in quotes when its plain form
\* would be read back as something else than a string.
LooksLikeInt(segs) == segs = <<"123">>
NeedsQuotes(segs) == LooksLikeInt(segs) \/ segs = <<"">>

\* Faulty variant: every scalar is written plain.
PlainScalar(segs) == [ty |-> "plain", segs |-> segs]

\* yaml.safe_dump of one string value (GitoliteRequest.py line 56).
Scalar(segs) == [ty |-> IF NeedsQuotes(segs) THEN "quoted" ELSE "plain", segs |-> segs]

\* yaml.safe_dump(info), info = {"user": user, "repo": repo}.
YamlText(user, repo) ==
    [ty |-> "yaml", keys |-> {"user", "repo"}, user |-> Scalar(user), repo |-> Scalar(repo)]

\* yaml.safe_load of one scalar (RequestHandler.py line 306).
ParseScalar(sc) ==
    IF sc.ty = "quoted" THEN StrVal(sc.segs)
    ELSE IF LooksLikeInt(sc.segs) THEN IntVal
    ELSE IF sc.segs = <<"">> THEN NoVal
    ELSE StrVal(sc.segs)

\* A record file that open(path, "w") has created and nothing was written
\* to yet; yaml.safe_load gives None for it.
EmptyFile == [ty |-> "empty", keys |-> {}, user |-> NoVal, repo |-> NoVal]
NoneValue == [ty |-> "null", keys |-> {}, user |-> NoVal, repo |-> NoVal]

\* Repository identities a push can carry.
ActiveContest == <<"contests", "finals">>
InactiveContest == <<"contests", "practice">>
UsersRepo == <<"users">>
ActiveTask == <<"tasks", "sum">>
UnusedTask == <<"tasks", "old">>
UnknownRepo == <<"misc", "x">>
SecondContest == <<"contests", "semis">>

AllRepos ==
    {ActiveContest, SecondContest, InactiveContest, UsersRepo, ActiveTask, UnusedTask,
     UnknownRepo}

\* The repositories pushed to in the runs explored here: an active contest
\* (the longest update), a task no active contest lists (the shortest) and
\* a repository of no known type.
PushRepos == {ActiveContest, UnusedTask, UnknownRepo}

\* The record GitoliteRequest writes for (user, repo): lines 50-56.
RequestInfo(user, repo) == YamlText(<<user>>, repo)

\* Files found in the mailbox at worker startup that no ingestion wrote.
StrayContents ==
    { NotDict, Garbage,
      MapOf({"repo"}, NoVal, StrVal(ActiveContest)),
      MapOf({"user", "repo"}, IntVal, StrVal(ActiveContest)),
      MapOf({"user"}, Joe, NoVal),
      MapOf({"user", "repo"}, Joe, IntVal) }

\* config: requests.active_contests, and the task paths each manifest lists.
ACTIVE_CONTESTS == {ActiveContest}
\* The manifest of semis lists tasks/sum in two task entries.
ManifestTasks(contest) ==
    IF contest = ActiveContest THEN <<ActiveTask>>
    ELSE IF contest = SecondContest THEN <<ActiveTask, ActiveTask>>
    ELSE IF contest = InactiveContest THEN <<ActiveTask, UnusedTask>>
    ELSE <<>>

\* ------------------------------------------------------------- variables
VARIABLES
    mailbox,    \* the requests directory: filename -> file content or Absent
    mlock,      \* mailbox lock   [owner, expired]
    rlock,      \* repository lock [owner, expired]
    wpc,        \* worker: position in RequestHandler
    files,      \* worker: files_list of the running pass
    idx,        \* worker: index into files_list
    req,        \* worker: content read for the current request
    outcome,    \* worker: how handling of the current request went
    step,       \* worker: operations of _update_safely done so far
    held,       \* worker: locks it has acquired and not yet released
    watching,   \* worker: the inotify watch is installed
    events,     \* worker: IN_CLOSE_WRITE events queued by the kernel
    ipc,        \* ingest: position in GitoliteRequest.main
    ifile,      \* ingest: <<request name, content>> being written
    pushes,     \* pushes so far
    hook,       \* the post-receive hook runs, one per pusher, step by step
    opc,        \* other: position in its with block
    others,     \* other updaters so far
    tree,       \* the clone tree: [cloned, generated]
    db,         \* the database: [users, tasks, subs]
    crashes,    \* worker crashes so far
    written,    \* history: filenames in the order they were written
    order,      \* history: names handled by this worker instance, in order
    passLog,    \* history: handle / delete / sleep events of the running pass
    handled,    \* history: handle_request calls per name, over all instances
    started,    \* history: _update_safely entries per name, over all instances
    deleted,    \* history: names removed by _delete_request
    overran,    \* history: processes whose lease expired while they used it
    plan,       \* worker: operations _update_safely performs for the request
    contests,   \* worker: self.contests, the active contests
    call        \* the library call last made: its arguments and its result

vars == <<mailbox, mlock, rlock, wpc, files, idx, req, outcome, step, held,
          watching, events, ipc, ifile, pushes, hook, opc, others, tree, db, crashes,
          written, order, passLog, handled, started, deleted, overran, plan, contests, call>>

ingestVars == <<ipc, ifile, pushes, hook>>
otherVars == <<opc, others>>
stores == <<tree, db>>

\* ----------------------------------------------------------------- locks
Free == [owner |-> "none", expired |-> FALSE]
HeldBy(p) == [owner |-> p, expired |-> FALSE]

\* Faulty variant: the lock file of a live holder does not stop an acquirer.
AlwaysAcquire(lock) == TRUE

\* flufl.lock.Lock.lock: the link succeeds on a free lock file; a lock file
\* past its lifetime is broken and taken.
CanAcquire(lock) == lock.owner = "none" \/ lock.expired

\* flufl.lock.Lock.lock raises TimeOutError once the timeout has passed
\* while somebody else's lock file is in the way.
CanTimeOut(lock, p) == lock.owner # "none" /\ lock.owner # p

\* flufl.lock.Lock.unlock: raises NotLockedError unless the lock file is
\* still this process's own (an expired lease nobody took is refreshed and
\* released normally).
Owns(lock, p) == lock.owner = p

\* Faulty variant: the lock file carries no lifetime, a lease never expires.
NeverExpired(lock) == lock

\* A lease passes its lifetime.
Expired(lock) == [lock EXCEPT !.expired = TRUE]

\* The claim of a process that died: its lock file stays until broken.
Orphaned(lock, p) == IF lock.owner = p THEN [lock EXCEPT !.owner = "dead"] ELSE lock


\* ------------------------------------------------------ pure operations
RECURSIVE ListingOrder(_)
\* Faulty variant: the listing is used as the file system gives it (here: largest
\* name first), the sort is missing.
ListingOrder(S) ==
    IF S = {} THEN <<>>
    ELSE LET m == CHOOSE x \in S : \A y \in S : x >= y
         IN  <<m>> \o ListingOrder(S \ {m})

RECURSIVE SortedSeq(_)
\* files_list.sort(): the names of a listing in increasing order.
SortedSeq(S) ==
    IF S = {} THEN <<>>
    ELSE LET m == CHOOSE x \in S : \A y \in S : x <= y
         IN  <<m>> \o SortedSeq(S \ {m})

\* os.listdir + the ".yaml" and isfile filters: the record files present.
ListDir(box) == {n \in Names : box[n] # Absent}

\* repo.split("/")[0]
RepoType(segs) == segs[1]

\* Faulty variant: the check of the repository type is missing.
ValidRequestNoType(request) ==
    /\ request.ty = "map"
    /\ "user" \in request.keys
    /\ request.user.ty = "str"
    /\ "repo" \in request.keys
    /\ request.repo.ty = "str"

\* RequestHandler._validate_request: TRUE iff it raises nothing.
ValidRequest(request) ==
    /\ request.ty = "map"
    /\ "user" \in request.keys
    /\ request.user.ty = "str"
    /\ "repo" \in request.keys
    /\ request.repo.ty = "str"
    /\ RepoType(request.repo.segs) \in {"tasks", "contests", "users"}

\* open(path) + yaml.safe_load(stream) in _get_request_content.
LoadRequest(content) ==
    IF content = Absent \/ content = Garbage THEN ReadError
    ELSE IF content = EmptyFile THEN NoneValue
    ELSE IF content.ty = "yaml"
         THEN MapOf(content.keys, ParseScalar(content.user), ParseScalar(content.repo))
    ELSE content

Op(kind, repo) == [op |-> kind, repo |-> repo]

\* An operation on a task of a contest in the database.
TaskOp(kind, contest, task) == [op |-> kind, repo |-> task, contest |-> contest]

\* The name of a contest or task: the last part of its repository path
\* (short_name in its manifest).
ShortName(repo) == repo[Len(repo)]

\* processor.get_auto_submit_items(): how many solutions the task's module
\* lists for automatic submission.
Solutions(task) == IF task = ActiveTask THEN 1 ELSE 0

\* SafeUpdater.auto_submit with the removal done before the solutions are
\* looked at.
AutoSubmitRemovingFirst(contest, task) ==
    <<Op("autosubmit", task), TaskOp("remove", contest, task)>>
    \o (IF Solutions(task) = 0 THEN <<>>
        ELSE <<TaskOp("submit", contest, task)>>)

\* SafeUpdater.auto_submit(contest_name, task_info): the processor is
\* created and asked for the solutions; if there are none, that is all;
\* else remove_submissions, then add_submissions.
AutoSubmit(contest, task) ==
    <<Op("autosubmit", task)>>
    \o (IF Solutions(task) = 0 THEN <<>>
        ELSE <<TaskOp("remove", contest, task), TaskOp("submit", contest, task)>>)

RECURSIVE GenerateOps(_, _)
\* update_contest, generate_new: clone and generate each manifest task that
\* is not on disk (absent), in manifest order; once cloned, a task is on
\* disk for the entries that follow.
GenerateOps(tasks, absent) ==
    IF tasks = <<>> THEN <<>>
    ELSE (IF Head(tasks) \in absent
          THEN <<Op("sync", Head(tasks)), Op("generate", Head(tasks))>>
          ELSE <<>>) \o GenerateOps(Tail(tasks), absent \ {Head(tasks)})

\* Faulty variant: the list auto_submit is ignored.
ToSubmitOnlyNew(task, autoFor, autoNew, fresh) == autoNew /\ task \in fresh

\* "if (auto_submit_new and task_name not in existing_tasks) or task_path
\* in auto_submit"
ToSubmit(task, autoFor, autoNew, fresh) ==
    (autoNew /\ task \in fresh) \/ task \in autoFor

RECURSIVE AutoSubmitOps(_, _, _, _, _)
\* update_contest, final loop: auto_submit for tasks new to the contest
\* (fresh) when auto_submit_new, and for tasks whose path is listed in
\* auto_submit.
AutoSubmitOps(contest, tasks, autoFor, autoNew, fresh) ==
    IF tasks = <<>> THEN <<>>
    ELSE (IF ToSubmit(Head(tasks), autoFor, autoNew, fresh)
          THEN AutoSubmit(contest, Head(tasks))
          ELSE <<>>) \o AutoSubmitOps(contest, Tail(tasks), autoFor, autoNew, fresh)

SeqRange(s) == {s[i] : i \in DOMAIN s}

\* Faulty variant: the path of the task is looked up among the names.
FreshTasksByPath(contest, existing) ==
    {t \in SeqRange(ManifestTasks(contest)) :
        <<ShortName(contest), t>> \notin existing}

\* get_contest_tasks(contest_name) against the manifest: the tasks whose
\* short_name the database does not yet hold for the contest.  existing:
\* the set of <<contest name, task name>> the database holds.
FreshTasks(contest, existing) ==
    {t \in SeqRange(ManifestTasks(contest)) :
        <<ShortName(contest), ShortName(t)>> \notin existing}

\* Faulty variant: the tasks of the contest are asked for after the import.
ContestOpsImportFirst(contest, updateUsers, autoFor, autoNew, absent, existing) ==
    <<Op("sync", contest), Op("manifest", contest)>>
    \o (IF updateUsers THEN <<Op("sync", UsersRepo)>> ELSE <<>>)
    \o <<Op("addusers", contest)>>
    \o GenerateOps(ManifestTasks(contest), absent)
    \o <<Op("import", contest), Op("gettasks", contest)>>
    \o AutoSubmitOps(contest, ManifestTasks(contest), autoFor, autoNew,
                     FreshTasks(contest,
                                existing \cup {<<ShortName(contest), ShortName(t)>> :
                                                  t \in SeqRange(ManifestTasks(contest))}))

\* The body of SafeUpdater.update_contest with update, generate_new and
\* add_users set: the operations on the clone tree and the database, in
\* order.
ContestOps(contest, updateUsers, autoFor, autoNew, absent, existing) ==
    <<Op("sync", contest), Op("manifest", contest)>>
    \o (IF updateUsers THEN <<Op("sync", UsersRepo)>> ELSE <<>>)
    \o <<Op("addusers", contest)>>
    \o GenerateOps(ManifestTasks(contest), absent)
    \o <<Op("gettasks", contest), Op("import", contest)>>
    \o AutoSubmitOps(contest, ManifestTasks(contest), autoFor, autoNew,
                     FreshTasks(contest, existing))

\* "def update_contest(self, repo, update, generate_new, add_users,
\* update_users, auto_submit, auto_submit_new)": the parameters a caller
\* may pass by keyword.
UpdateContestParams ==
    {"update", "generate_new", "add_users", "update_users", "auto_submit",
     "auto_submit_new"}

\* The keywords of the three calls of update_contest in _update_safely.
HandlerKeywords ==
    {"update", "generate_new", "add_new_users", "update_users", "auto_submit",
     "auto_submit_new"}

\* Python binds the keywords of a call to the parameters, or raises
\* TypeError: no unexpected keyword, no parameter left without a value.
Binds(keywords, params) == keywords = params

\* Faulty variant: the call binds, synchronizes the contest and returns.
UpdateContestSyncOnly(contest, updateUsers, autoFor, autoNew, absent, existing) ==
    <<Op("sync", contest)>>

\* updater.update_contest(contest, update=True, generate_new=True,
\* add_new_users=True, ...) as _update_safely calls it: the operations of
\* the body, or the TypeError of the call.
UpdateContest(contest, updateUsers, autoFor, autoNew, absent, existing) ==
    IF Binds(HandlerKeywords, UpdateContestParams)
    THEN ContestOps(contest, updateUsers, autoFor, autoNew, absent, existing)
    ELSE <<Op("typeerror", contest)>>

\* The last of these operations is the raising of an exception.
Raises(ops) == ops # <<>> /\ ops[Len(ops)].op = "typeerror"

RECURSIVE AllContestOps(_, _, _, _, _, _)
\* "for contest in ...: updater.update_contest(contest, ...)": an exception
\* ends the loop.
AllContestOps(cs, updateUsers, autoFor, autoNew, absent, existing) ==
    IF cs = <<>> THEN <<>>
    ELSE LET ops == UpdateContest(Head(cs), updateUsers, autoFor, autoNew, absent,
                                  existing)
         IN IF Raises(ops) THEN ops
            ELSE ops \o AllContestOps(Tail(cs), updateUsers, autoFor, autoNew,
                                      absent \ SeqRange(ManifestTasks(Head(cs))),
                                      existing)

RECURSIVE SeqOf(_)
\* Iteration over the set self.contests.
SeqOf(S) ==
    IF S = {} THEN <<>>
    ELSE LET c == CHOOSE x \in S : TRUE IN <<c>> \o SeqOf(S \ {c})

RECURSIVE Flatten(_)
\* "result += [...]" over a sequence of lists.
Flatten(seqs) == IF seqs = <<>> THEN <<>> ELSE Head(seqs) \o Flatten(Tail(seqs))

\* _get_task_contests, the inner loop: "if task["path"] == task_repo:
\* result += [contest]", once for every task entry of the manifest that has
\* the path.
ContestPerEntry(task, contest) ==
    LET entries == SelectSeq(ManifestTasks(contest), LAMBDA t : t = task) IN
    [i \in DOMAIN entries |-> contest]

\* Faulty variant: every active contest counts as using the task.
TaskContestsAll(task, active) == SeqOf(active)

\* RequestHandler._get_task_contests: the active contests whose manifest
\* lists the task, each as many times as its manifest lists it.
TaskContests(task, active) ==
    Flatten([i \in DOMAIN SeqOf(active) |-> ContestPerEntry(task, SeqOf(active)[i])])

ManifestOps(cs) == [i \in DOMAIN cs |-> Op("manifest", cs[i])]

\* Faulty variant: every contest counts as active.
AlwaysActive(repo, active) == TRUE

\* "if repo in self.contests"
IsActive(repo, active) == repo \in active

\* RequestHandler._update_safely: what one request does inside the
\* repository lock.  absent: tasks not on disk; existing: the
\* <<contest, task>> the database holds; active: self.contests.
UpdateOps(repo, absent, existing, active) ==
    CASE RepoType(repo) = "contests" ->
           <<Op("sync", repo)>>
           \o (IF IsActive(repo, active)
               THEN UpdateContest(repo, TRUE, {}, TRUE, absent, existing)
               ELSE <<>>)
      [] RepoType(repo) = "users" ->
           AllContestOps(SeqOf(active), TRUE, {}, FALSE, absent, existing)
      [] RepoType(repo) = "tasks" ->
           ManifestOps(SeqOf(active))
           \o (IF TaskContests(repo, active) = <<>> THEN <<>>
               ELSE <<Op("sync", repo), Op("generate", repo)>>
                    \o AllContestOps(TaskContests(repo, active), FALSE, {repo}, TRUE,
                                     absent \ {repo}, existing))
      [] OTHER -> <<>>

AllTasks == {ActiveTask, UnusedTask}

\* The operations of a request, given the clone tree, the database and the
\* active contests as they are when the with block is entered.
Plan(repo, t, d, active) == UpdateOps(repo, AllTasks \ t.cloned, d.tasks, active)

\* ------------------------------------------------------------ the sandbox
\* A return code of isolate: zero, or anything else.
ReturnCodes == {0, 1}

\* What TaskSandbox.execute finds: whether task_dir is a directory, what
\* TaskProcessor.needs_generating answers ("current", "stale", or it raises),
\* whether gen_dir is a directory already, and the return codes of
\* isolate --init, --run and --cleanup.
SandboxEnvs ==
    [taskDir : BOOLEAN, fresh : {"current", "stale", "raises"},
     genDir : BOOLEAN, init : ReturnCodes, run : ReturnCodes,
     cleanup : ReturnCodes]

\* A freshness check that is never believed.
AlwaysNeedsGenerating(fresh) == TRUE

\* execute, the try block: only a check that answers "current" returns
\* early; a check that raises is passed over and generation goes on.
NeedsGenerating(fresh) == fresh # "current"

\* execute, from mkdir to the end, with a run whose return code is ignored.
RunSandboxSwallowing(e) ==
    LET prep == (IF e.genDir THEN <<>> ELSE <<"mkdir">>) \o <<"chmod">> IN
    IF e.init # 0
    THEN [ret |-> "raise", log |-> prep \o <<"init">>]
    ELSE [ret |-> IF e.cleanup # 0 THEN "raise" ELSE "ok",
          log |-> prep \o <<"init", "run", "cleanup">>]

\* execute, from mkdir to the end: gen_dir is created if missing and opened
\* to all, the sandbox is initialised (a failure raises before anything is
\* run), the processor is run and the sandbox cleaned up in the finally
\* block; a non-zero return code of the run or of the cleanup raises.
RunSandbox(e) ==
    LET prep == (IF e.genDir THEN <<>> ELSE <<"mkdir">>) \o <<"chmod">> IN
    IF e.init # 0
    THEN [ret |-> "raise", log |-> prep \o <<"init">>]
    ELSE [ret |-> IF e.run # 0 \/ e.cleanup # 0 THEN "raise" ELSE "ok",
          log |-> prep \o <<"init", "run", "cleanup">>]

\* TaskSandbox.execute: what it returns and what it did, in order.
Execute(e) ==
    IF ~e.taskDir THEN [ret |-> "raise", log |-> <<>>]
    ELSE IF ~NeedsGenerating(e.fresh) THEN [ret |-> "ok", log |-> <<>>]
    ELSE RunSandbox(e)

\* The processor wrote its output: it was run and returned zero.
Generated(e, r) == \E i \in 1..Len(r.log) : r.log[i] = "run" /\ e.run = 0

\* The record of one call of execute for a task.
ExecuteCall(task, e, r) ==
    [fn |-> "execute", pc |-> "done", task |-> task, env |-> e,
     ret |-> r.ret, log |-> r.log]

\* ----------------------------------------------------------- the database
\* users: [name, pw]; contests: names; parts: <<contest, user>>;
\* tasks: <<contest, task>>; subs: [id, contest, task, user, result].
EmptyDb == [users |-> {}, contests |-> {}, parts |-> {}, tasks |-> {}, subs |-> {}]

UserNames(d) == {u.name : u \in d.users}

\* "autotester" in username
IsAutotester(username) == username = "autotester"

\* get_user, get_contest, get_participation and get_task(.., contest) all
\* find their object.
Found(d, contest, task, user) ==
    /\ user \in UserNames(d)
    /\ contest \in d.contests
    /\ <<contest, user>> \in d.parts
    /\ <<contest, task>> \in d.tasks

\* get_user_task_submissions
UserTaskSubmissions(d, contest, task, user) ==
    {x \in d.subs : x.contest = contest /\ x.task = task /\ x.user = user}

\* "result is None or result.score is None"
NotScored(x) == x.result \in {"none", "unscored"}

\* Faulty variant: the scored submissions are deleted even when another
\* one is still in evaluation.
RemoveScoredSubmissions(d, contest, task, user) ==
    IF ~IsAutotester(user) \/ ~Found(d, contest, task, user)
    THEN [ret |-> "raise", db |-> d]
    ELSE LET S == UserTaskSubmissions(d, contest, task, user) IN
         [ret |-> IF \E x \in S : NotScored(x) THEN "not_removed" ELSE "removed",
          db |-> [d EXCEPT !.subs = @ \ {x \in S : ~NotScored(x)}]]

\* DatabaseUtils.remove_submissions: what it returns (True: "removed",
\* False: "not_removed", or it raises) and the database it leaves.
RemoveSubmissions(d, contest, task, user) ==
    IF ~IsAutotester(user) \/ ~Found(d, contest, task, user)
    THEN [ret |-> "raise", db |-> d]
    ELSE LET S == UserTaskSubmissions(d, contest, task, user) IN
         IF S = {} THEN [ret |-> "removed", db |-> d]
         ELSE IF \E x \in S : NotScored(x) THEN [ret |-> "not_removed", db |-> d]
         ELSE [ret |-> "removed", db |-> [d EXCEPT !.subs = @ \ S]]

\* A user of a users file as the database would hold it.
UserOf(info) == [name |-> info.name, pw |-> info.pw]

\* add_users: the users of the file whose name the database does not hold,
\* in the order of the file.
MissingUsers(infos, d) == SelectSeq(infos, LAMBDA u : u.name \notin UserNames(d))

\* Faulty variant: a participation is added for every user of the file.
AllParticipations(infos, contest, d) ==
    IF contest \notin d.contests THEN <<>>
    ELSE [i \in DOMAIN infos |-> <<contest, infos[i].name>>]

\* add_users: the participations it adds: none when the contest is not
\* found, else one for each user of the file that has none in the contest.
MissingParticipations(infos, contest, d) ==
    IF contest \notin d.contests THEN <<>>
    ELSE LET without == SelectSeq(infos, LAMBDA u : <<contest, u.name>> \notin d.parts)
         IN [i \in DOMAIN without |-> <<contest, without[i].name>>]

\* DatabaseUtils.add_users(users_info, contest_name): the objects it adds
\* to the session and the database after the commit.
AddUsers(d, infos, contest) ==
    LET us == MissingUsers(infos, d)
        ps == MissingParticipations(infos, contest, d)
    IN [users |-> us, parts |-> ps,
        db |-> [d EXCEPT !.users = @ \cup {UserOf(us[i]) : i \in DOMAIN us},
                         !.parts = @ \cup {ps[i] : i \in DOMAIN ps}]]

RECURSIVE AddNewUsers(_, _, _)
\* SafeUpdater.add_new_users, the loop over the users of the file: cmsAddUser
\* creates the user (0), finds it there (1), or fails (anything else, which
\* raises).  failAt: the position in the file where cmsAddUser fails, 0
\* when it never does.
AddNewUsers(d, infos, failAt) ==
    IF infos = <<>> THEN [ret |-> "ok", db |-> d]
    ELSE IF failAt = 1 THEN [ret |-> "raise", db |-> d]
    ELSE AddNewUsers(IF Head(infos).name \in UserNames(d) THEN d
                     ELSE [d EXCEPT !.users = @ \cup {UserOf(Head(infos))}],
                     Tail(infos),
                     IF failAt = 0 THEN 0 ELSE failAt - 1)

\* The effect of one operation on the clone tree: git clone / fetch+reset
\* (clone_repo, update_repo), TaskSandbox.execute (generate_task).
ApplyTree(o, t) ==
    CASE o.op = "sync" -> [t EXCEPT !.cloned = @ \cup {o.repo}]
      [] o.op = "generate" -> [t EXCEPT !.generated = @ \cup {o.repo}]
      [] OTHER -> t

\* The users file the manifest of a contest names (users_file).
Alice == [name |-> "alice", pw |-> "a"]
JoeInFile == [name |-> "joe", pw |-> "new"]
UsersFile(contest) == <<Alice, JoeInFile>>

\* The user add_submissions and remove_submissions act for in auto_submit.
Autotester == "autotester"

\* The id the database gives the next submission.
NextId(d) ==
    IF d.subs = {} THEN 1
    ELSE 1 + CHOOSE m \in {x.id : x \in d.subs} : \A x \in d.subs : x.id <= m

\* DatabaseUtils.add_submissions for n items that pass the validation: the
\* getters raise if an object is missing; else one Submission per item is
\* added and committed, without a result.
AddSubmissions(d, contest, task, user, n) ==
    IF ~Found(d, contest, task, user) THEN [ret |-> "raise", db |-> d]
    ELSE [ret |-> "ok",
          db |-> [d EXCEPT !.subs = @ \cup
                     {[id |-> NextId(d) + i, contest |-> contest, task |-> task,
                       user |-> user, result |-> "none"] : i \in 0..(n - 1)}]]

\* cmsImportContest --import-tasks --update-tasks --update-contest: the
\* contest and the tasks of its manifest are in the database afterwards;
\* users, participations and submissions are left alone.
ImportContest(d, contest) ==
    [d EXCEPT !.contests = @ \cup {ShortName(contest)},
              !.tasks = @ \cup {<<ShortName(contest), ShortName(t)>> :
                                   t \in SeqRange(ManifestTasks(contest))}]

\* An operation that runs to its end when its commands succeed: a call
\* that binds, a manifest that is on disk (open(module_path)), a removal
\* that is not refused, submissions whose user, contest, participation
\* and task are found.
CanSucceed(o, t, d) ==
    /\ o.op # "typeerror"
    /\ o.op = "manifest" => o.repo \in t.cloned
    /\ o.op = "remove" =>
          RemoveSubmissions(d, ShortName(o.contest), ShortName(o.repo),
                            Autotester).ret = "removed"
    /\ o.op = "submit" =>
          AddSubmissions(d, ShortName(o.contest), ShortName(o.repo), Autotester,
                         Solutions(o.repo)).ret = "ok"

\* An operation a failing command can end: all but the reading of the
\* contest's tasks, whose exception update_contest catches.
CanFail(o) == o.op # "gettasks"

\* How _act's "except Exception" finds the failed operation.
Failure(o) == IF o.op = "typeerror" THEN "type_error" ELSE "update_error"

\* The effect of one operation on the database: cmsAddUser (add_new_users),
\* cmsImportContest (update_contest), remove/add_submissions (auto_submit).
ApplyDb(o, d) ==
    CASE o.op = "addusers" -> AddNewUsers(d, UsersFile(o.repo), 0).db
      [] o.op = "import" -> ImportContest(d, o.repo)
      [] o.op = "remove" ->
           RemoveSubmissions(d, ShortName(o.contest), ShortName(o.repo),
                             Autotester).db
      [] o.op = "submit" ->
           AddSubmissions(d, ShortName(o.contest), ShortName(o.repo), Autotester,
                          Solutions(o.repo)).db
      [] OTHER -> d

\* ------------------------------------------------------------------ init
\* No library function has been called.
NoCall == [fn |-> "none", pc |-> "idle"]

NoFile == [name |-> 0, content |-> Absent]

\* The processes running GitoliteRequest.py as the post-receive hook.
Pushers == {"p1", "p2"}

\* An environment variable: unset, or set to a string (split at "/").
Unset == [set |-> FALSE, segs |-> <<>>]
EnvVal(segs) == [set |-> TRUE, segs |-> segs]

\* A hook process before main() has read anything.
IdleHook ==
    [pc |-> "idle", time |-> 0, user |-> Unset, repo |-> Unset, name |-> 0, yaml |-> Absent,
     fail |-> FALSE, rc |-> -1, created |-> FALSE, wrote |-> FALSE]

\* Records that accumulated before the worker started: written by earlier
\* pushes, or stray files.
StartContents == StrayContents \cup {RequestInfo("joe", r) : r \in PushRepos}

StartMailboxes ==
    {box \in [Names -> StartContents \cup {Absent}] :
        Cardinality({n \in Names : box[n] # Absent}) <= MaxInitial}

\* main(): handler = RequestHandler(); nothing is watched yet.
Init ==
    /\ mailbox \in StartMailboxes
    /\ mlock = Free
    /\ rlock = Free
    /\ wpc = "list"
    /\ files = <<>>
    /\ idx = 0
    /\ req = NoRequest
    /\ outcome = "none"
    /\ step = 0
    /\ plan = <<>>
    /\ held = {}
    /\ watching = FALSE
    /\ events = 0
    /\ ipc = "idle"
    /\ ifile = NoFile
    /\ pushes = 0
    /\ hook = [p \in Pushers |-> IdleHook]
    /\ opc = "idle"
    /\ others = 0
    /\ tree = [cloned |-> {ActiveContest, InactiveContest, UsersRepo}, generated |-> {}]
    /\ db = EmptyDb
    /\ crashes = 0
    /\ written = SortedSeq(ListDir(mailbox))
    /\ order = <<>>
    /\ passLog = <<>>
    /\ handled = [n \in Names |-> 0]
    /\ started = [n \in Names |-> 0]
    /\ deleted = {}
    /\ overran = {}
    /\ contests = ACTIVE_CONTESTS
    /\ call = NoCall

\* ---------------------------------------------------------------- worker
EnvLeft == pushes + crashes + others < MaxEnv

Cur == files[idx]
Ev(e, n, r, o) == [ev |-> e, name |-> n, req |-> r, out |-> o]
Bump(f, n) == [f EXCEPT ![n] = @ + 1]

\* Where the worker goes when a pass is over: main() installs the watch
\* only after the startup drain has returned.
AfterPass == IF watching THEN "watch" ELSE "addwatch"

\* handle_existing_requests, lines 102-108: listing, filter, sort.
ListRequests ==
    /\ wpc = "list"
    /\ files' = SortedSeq(ListDir(mailbox))
    /\ passLog' = <<>>
    /\ IF files' = <<>>
       THEN idx' = 0 /\ wpc' = AfterPass
       ELSE idx' = 1 /\ wpc' = "handle"
    /\ UNCHANGED <<mailbox, mlock, rlock, req, outcome, step, plan, held, watching,
                   events, ingestVars, otherVars, stores, crashes, contests, call, written, order, handled,
                   started, deleted, overran>>

\* handle_request entered for files_list[index]; _get_request_content takes
\* the mailbox lock or gets TimeOutError, which handle_request reports.
HandleRequest ==
    /\ wpc = "handle"
    /\ order' = Append(order, Cur)
    /\ passLog' = Append(passLog, Ev("handle", Cur, NoRequest, "none"))
    /\ handled' = Bump(handled, Cur)
    /\ req' = NoRequest
    /\ step' = 0
    /\ plan' = <<>>
    /\ \/ /\ CanAcquire(mlock)
          /\ mlock' = HeldBy("worker")
          /\ held' = held \cup {"mailbox"}
          /\ outcome' = "none"
          /\ wpc' = "read"
       \/ /\ CanTimeOut(mlock, "worker")
          /\ outcome' = "read_error"
          /\ wpc' = "delete"
          /\ UNCHANGED <<mlock, held>>
    /\ UNCHANGED <<mailbox, rlock, files, idx, watching, events, ingestVars,
                   otherVars, stores, crashes, contests, call, written, started, deleted, overran>>

\* _get_request_content, lines 305-306.
ReadRequest ==
    /\ wpc = "read"
    /\ req' = LoadRequest(mailbox[Cur])
    /\ wpc' = "unlock"
    /\ UNCHANGED <<mailbox, mlock, rlock, files, idx, outcome, step, plan, held,
                   watching, events, ingestVars, otherVars, stores, crashes, contests, call, written, order,
                   passLog, handled, started, deleted, overran>>

\* lock.unlock() of a flufl lock by process p: the lock file is removed if
\* it is still p's own; otherwise NotLockedError is raised.
Unlock(lock, h, l, p) ==
    [lock |-> IF Owns(lock, p) THEN Free ELSE lock,
     held |-> h \ {l},
     raised |-> ~Owns(lock, p)]

\* Faulty variant: the lock is not released after the read.
KeepMailboxLocked(lock, h) == [lock |-> lock, held |-> h, raised |-> FALSE]

\* _get_request_content, "finally: lock.unlock()".
UnlockMailbox(lock, h) == Unlock(lock, h, "mailbox", "worker")

\* Faulty variant: the with block is left without unlocking.
KeepRepoLocked(lock, h) == [lock |-> lock, held |-> h, raised |-> FALSE]

\* SafeUpdater.__exit__.
ExitUpdater(lock, h) == Unlock(lock, h, "repo", "worker")

\* Faulty variant: the exception of an invalid request is not caught in
\* handle_request and ends the pass.
UnlockAndValidateNoCatch ==
    /\ wpc = "unlock"
    /\ LET u == UnlockMailbox(mlock, held) IN
       /\ mlock' = u.lock
       /\ held' = u.held
       /\ IF req = ReadError \/ u.raised
          THEN outcome' = "read_error" /\ wpc' = "delete"
          ELSE IF ValidRequest(req)
               THEN outcome' = "valid" /\ wpc' = "act"
               ELSE outcome' = "invalid" /\ wpc' = AfterPass
    /\ UNCHANGED <<mailbox, rlock, files, idx, req, step, plan, watching, events,
                   ingestVars, otherVars, stores, crashes, contests, call, written, order, passLog,
                   handled, started, deleted, overran>>

\* The end of _get_request_content and the validation in handle_request:
\* an exception of the read or of the unlock, or an invalid request, makes
\* handle_request return False.
UnlockAndValidate ==
    /\ wpc = "unlock"
    /\ LET u == UnlockMailbox(mlock, held) IN
       /\ mlock' = u.lock
       /\ held' = u.held
       /\ IF req = ReadError \/ u.raised
          THEN outcome' = "read_error" /\ wpc' = "delete"
          ELSE IF ValidRequest(req)
               THEN outcome' = "valid" /\ wpc' = "act"
               ELSE outcome' = "invalid" /\ wpc' = "delete"
    /\ UNCHANGED <<mailbox, rlock, files, idx, req, step, plan, watching, events,
                   ingestVars, otherVars, stores, crashes, contests, call, written, order, passLog, handled,
                   started, deleted, overran>>

\* Faulty variant: the update runs although the lock was not acquired.
EnterUpdaterNoLock ==
    /\ wpc = "act"
    /\ plan' = Plan(req.repo.segs, tree, db, contests)
    /\ started' = Bump(started, Cur)
    /\ wpc' = "update"
    /\ \/ /\ CanAcquire(rlock)
          /\ rlock' = HeldBy("worker")
          /\ held' = held \cup {"repo"}
       \/ /\ CanTimeOut(rlock, "worker")
          /\ UNCHANGED <<rlock, held>>
    /\ UNCHANGED <<mailbox, mlock, files, idx, req, outcome, step, watching, events,
                   ingestVars, otherVars, stores, crashes, contests, call, written, order, passLog,
                   handled, deleted, overran>>

\* _act: "with SafeUpdater() as updater": __enter__ takes the repository
\* lock, or raises TimeOutError, which _act logs.
EnterUpdater ==
    /\ wpc = "act"
    /\ \/ /\ CanAcquire(rlock)
          /\ rlock' = HeldBy("worker")
          /\ held' = held \cup {"repo"}
          /\ plan' = Plan(req.repo.segs, tree, db, contests)
          /\ started' = Bump(started, Cur)
          /\ wpc' = "update"
          /\ UNCHANGED outcome
       \/ /\ CanTimeOut(rlock, "worker")
          /\ outcome' = "lock_timeout"
          /\ wpc' = "delete"
          /\ UNCHANGED <<rlock, held, plan, started>>
    /\ UNCHANGED <<mailbox, mlock, files, idx, req, step, watching, events,
                   ingestVars, otherVars, stores, crashes, contests, call, written, order, passLog, handled,
                   deleted, overran>>

\* _update_safely: the next operation runs, or raises, or all are done.
\* generate_task hands the task to TaskSandbox.execute, whose exception is
\* not caught on the way up.
UpdateStep ==
    /\ wpc = "update"
    /\ \/ /\ step < Len(plan)
          /\ plan[step + 1].op # "generate"
          /\ CanSucceed(plan[step + 1], tree, db)
          /\ step' = step + 1
          /\ tree' = ApplyTree(plan[step + 1], tree)
          /\ db' = ApplyDb(plan[step + 1], db)
          /\ UNCHANGED <<wpc, outcome, call>>
       \/ /\ step < Len(plan)
          /\ plan[step + 1].op # "generate"
          /\ CanFail(plan[step + 1])
          /\ outcome' = Failure(plan[step + 1])
          /\ wpc' = "exit"
          /\ UNCHANGED <<step, tree, db, call>>
       \/ /\ step < Len(plan)
          /\ plan[step + 1].op = "generate"
          /\ \E e \in SandboxEnvs :
                LET task == plan[step + 1].repo
                    r == Execute(e) IN
                /\ e.taskDir = (task \in tree.cloned)
                /\ call' = ExecuteCall(task, e, r)
                /\ tree' = IF Generated(e, r)
                           THEN ApplyTree(plan[step + 1], tree) ELSE tree
                /\ IF r.ret = "ok"
                   THEN step' = step + 1 /\ UNCHANGED <<wpc, outcome>>
                   ELSE /\ outcome' = Failure(plan[step + 1])
                        /\ wpc' = "exit"
                        /\ UNCHANGED step
          /\ UNCHANGED db
       \/ /\ step = Len(plan)
          /\ outcome' = "done"
          /\ wpc' = "exit"
          /\ UNCHANGED <<step, tree, db, call>>
    /\ UNCHANGED <<mailbox, mlock, rlock, files, idx, req, plan, held, watching,
                   events, ingestVars, otherVars, crashes, contests, written, order, passLog,
                   handled, started, deleted, overran>>

\* The with block is left: __exit__ unlocks; its NotLockedError is caught
\* and logged by _act like any error of the update.
LeaveUpdater ==
    /\ wpc = "exit"
    /\ LET u == ExitUpdater(rlock, held) IN
       /\ rlock' = u.lock
       /\ held' = u.held
       /\ outcome' = IF u.raised THEN "update_error" ELSE outcome
    /\ overran' = overran \ {"worker"}
    /\ wpc' = "delete"
    /\ UNCHANGED <<mailbox, mlock, files, idx, req, step, plan, watching, events,
                   ingestVars, otherVars, stores, crashes, contests, call, written, order, passLog, handled,
                   started, deleted>>

\* os.remove(path) in _delete_request.
RemoveFile(box, n) == [box EXCEPT ![n] = Absent]

\* Faulty variant: only requests handled without a failure are removed.
DeleteRequestOnSuccess ==
    /\ wpc = "delete"
    /\ IF mailbox[Cur] # Absent /\ outcome = "done"
       THEN mailbox' = RemoveFile(mailbox, Cur) /\ deleted' = deleted \cup {Cur}
       ELSE UNCHANGED <<mailbox, deleted>>
    /\ passLog' = Append(passLog, Ev("delete", Cur, req, outcome))
    /\ wpc' = "sleep"
    /\ UNCHANGED <<mlock, rlock, files, idx, req, outcome, step, plan, held,
                   watching, events, ingestVars, otherVars, stores, crashes, contests, call, written,
                   order, handled, started, overran>>

\* Faulty variant: the next request is handled right after the deletion, without
\* the cooling sleep.
DeleteRequestNoSleep ==
    /\ wpc = "delete"
    /\ IF mailbox[Cur] # Absent
       THEN mailbox' = RemoveFile(mailbox, Cur) /\ deleted' = deleted \cup {Cur}
       ELSE UNCHANGED <<mailbox, deleted>>
    /\ passLog' = Append(passLog, Ev("delete", Cur, req, outcome))
    /\ IF idx < Len(files)
       THEN idx' = idx + 1 /\ wpc' = "handle"
       ELSE idx' = idx /\ wpc' = AfterPass
    /\ UNCHANGED <<mlock, rlock, files, req, outcome, step, plan, held,
                   watching, events, ingestVars, otherVars, stores, crashes, contests, call, written,
                   order, handled, started, overran>>

\* _delete_request(path): the file is removed if it is still there.
DeleteRequest ==
    /\ wpc = "delete"
    /\ IF mailbox[Cur] # Absent
       THEN mailbox' = RemoveFile(mailbox, Cur) /\ deleted' = deleted \cup {Cur}
       ELSE UNCHANGED <<mailbox, deleted>>
    /\ passLog' = Append(passLog, Ev("delete", Cur, req, outcome))
    /\ wpc' = "sleep"
    /\ UNCHANGED <<mlock, rlock, files, idx, req, outcome, step, plan, held,
                   watching, events, ingestVars, otherVars, stores, crashes, contests, call, written, order,
                   handled, started, overran>>

\* sleep(REQUEST_COOLING), then the next iteration of the for loop.
Sleep ==
    /\ wpc = "sleep"
    /\ passLog' = Append(passLog, Ev("sleep", Cur, NoRequest, "none"))
    /\ IF idx < Len(files)
       THEN idx' = idx + 1 /\ wpc' = "handle"
       ELSE idx' = idx /\ wpc' = AfterPass
    /\ UNCHANGED <<mailbox, mlock, rlock, files, req, outcome, step, plan, held,
                   watching, events, ingestVars, otherVars, stores, crashes, contests, call, written, order,
                   handled, started, deleted, overran>>

\* watch_forever: wm.add_watch(self.dir, IN_CLOSE_WRITE).
AddWatch ==
    /\ wpc = "addwatch"
    /\ watching' = TRUE
    /\ wpc' = "watch"
    /\ UNCHANGED <<mailbox, mlock, rlock, files, idx, req, outcome, step, plan,
                   held, events, ingestVars, otherVars, stores, crashes, contests, call, written, order,
                   passLog, handled, started, deleted, overran>>

\* notifier.loop(): one queued event is given to process_IN_CLOSE_WRITE.
ProcessEvent ==
    /\ wpc = "watch"
    /\ events > 0
    /\ events' = events - 1
    /\ wpc' = "list"
    /\ UNCHANGED <<mailbox, mlock, rlock, files, idx, req, outcome, step, plan,
                   held, watching, ingestVars, otherVars, stores, crashes, contests, call, written, order,
                   passLog, handled, started, deleted, overran>>

\* The worker process dies anywhere and is started again: main() from the
\* top.  Lock files it owned stay behind; its watch and queued events go.
CrashRestart ==
    /\ crashes < MaxCrashes
    /\ EnvLeft
    /\ crashes' = crashes + 1
    /\ mlock' = Orphaned(mlock, "worker")
    /\ rlock' = Orphaned(rlock, "worker")
    /\ wpc' = "list"
    /\ files' = <<>>
    /\ idx' = 0
    /\ req' = NoRequest
    /\ outcome' = "none"
    /\ step' = 0
    /\ plan' = <<>>
    /\ held' = {}
    /\ watching' = FALSE
    /\ events' = 0
    /\ order' = <<>>
    /\ passLog' = <<>>
    /\ overran' = overran \ {"worker"}
    /\ UNCHANGED <<mailbox, ingestVars, otherVars, stores, contests, call, written, handled,
                   started, deleted>>

\* ---------------------------------------------------------------- ingest
\* GitoliteRequest.main up to the lock: the request name and its content.
\* Timestamps make names new; their order against names already in the
\* mailbox is not fixed (same second, another user or repository).
Push ==
    /\ ipc = "idle"
    /\ pushes < MaxPushes
    /\ EnvLeft
    /\ \E n \in Names \ SeqRange(written), r \in PushRepos :
          /\ ifile' = [name |-> n, content |-> RequestInfo("joe", r)]
          /\ written' = Append(written, n)
    /\ pushes' = pushes + 1
    /\ ipc' = "lock"
    /\ UNCHANGED <<hook, mailbox, mlock, rlock, wpc, files, idx, req, outcome, step,
                   plan, held, watching, events, otherVars, stores, crashes, contests, call, order,
                   passLog, handled, started, deleted, overran>>

\* lock.lock(timeout=_lock_timeout): acquired, or "return 4".
IngestLock ==
    /\ ipc = "lock"
    /\ \/ /\ CanAcquire(mlock)
          /\ mlock' = HeldBy("ingest")
          /\ ipc' = "write"
          /\ UNCHANGED ifile
       \/ /\ CanTimeOut(mlock, "ingest")
          /\ ipc' = "idle"
          /\ ifile' = NoFile
          /\ UNCHANGED mlock
    /\ UNCHANGED <<hook, mailbox, rlock, wpc, files, idx, req, outcome, step, plan, held,
                   watching, events, pushes, otherVars, stores, crashes, contests, call, written, order,
                   passLog, handled, started, deleted, overran>>

\* open(request_path, "w"), write, close: IN_CLOSE_WRITE if watched.
IngestWrite ==
    /\ ipc = "write"
    /\ mailbox' = [mailbox EXCEPT ![ifile.name] = ifile.content]
    /\ events' = IF watching THEN events + 1 ELSE events
    /\ ipc' = "unlock"
    /\ UNCHANGED <<hook, mlock, rlock, wpc, files, idx, req, outcome, step, plan, held,
                   watching, ifile, pushes, otherVars, stores, crashes, contests, call, written, order,
                   passLog, handled, started, deleted, overran>>

\* "finally: lock.unlock()" with its exception swallowed; return 0.
IngestUnlock ==
    /\ ipc = "unlock"
    /\ mlock' = IF Owns(mlock, "ingest") THEN Free ELSE mlock
    /\ ipc' = "idle"
    /\ ifile' = NoFile
    /\ UNCHANGED <<hook, mailbox, rlock, wpc, files, idx, req, outcome, step, plan, held,
                   watching, events, pushes, otherVars, stores, crashes, contests, call, written, order,
                   passLog, handled, started, deleted, overran>>

\* ------------------------------------------------- the hook, step by step
\* GitoliteRequest.main as run by the pushers, with every return it has.
\* (The ingest process above is its run for a valid push with no failure
\* of the dump or of the write, and a file name of its own.)

\* The characters of a name that matter for a file name: "." made visible.
Chars(tok) == IF tok = "tasks.old" THEN <<"tasks", ".", "old">> ELSE <<tok>>

RECURSIVE Dotted(_)
\* repo.replace("/", ".")
Dotted(segs) ==
    IF Len(segs) = 1 THEN Chars(segs[1])
    ELSE Chars(Head(segs)) \o <<".">> \o Dotted(Tail(segs))

\* request_name = time_string + "_" + user + "_" + repo_name_path + ".yaml",
\* the time string having the resolution of a second.
RequestNameText(time, user, repo) ==
    <<time, "_">> \o Chars(user[1]) \o <<"_">> \o Dotted(repo) \o <<".yaml">>

\* The file names of the runs explored here, in lexicographic order: a
\* record's name in the mailbox is its rank among them.
KnownNames ==
    << <<1, "_", "123", "_", "tasks", ".", "old", ".yaml">>,
       <<1, "_", "joe", "_", "tasks", ".", "old", ".yaml">>,
       <<2, "_", "joe", "_", "tasks", ".", "old", ".yaml">> >>

\* request_name, as the rank of its text.
RequestName(time, user, repo) ==
    CHOOSE k \in DOMAIN KnownNames : KnownNames[k] = RequestNameText(time, user, repo)

\* What the environment of a hook run holds: the second read from the
\* clock, GL_USER and GL_REPO.
PushEvent(time, user, repo) == [time |-> time, user |-> user, repo |-> repo]

PushEvents ==
    { PushEvent(1, EnvVal(<<"123">>), EnvVal(UnusedTask)),
      PushEvent(1, EnvVal(<<"joe">>), EnvVal(UnusedTask)),
      PushEvent(1, EnvVal(<<"joe">>), EnvVal(<<"tasks.old">>)),
      PushEvent(2, EnvVal(<<"joe">>), EnvVal(UnusedTask)),
      PushEvent(1, Unset, EnvVal(UnusedTask)),
      PushEvent(1, EnvVal(<<"joe">>), Unset),
      PushEvent(1, EnvVal(<<"">>), EnvVal(UnusedTask)),
      PushEvent(1, EnvVal(<<"joe">>), EnvVal(<<"">>)) }

\* "return code" from main().
Return(h, code) == [h EXCEPT !.pc = "done", !.rc = code]

\* What the hook actions never touch.
hookFrame == <<rlock, wpc, files, idx, req, outcome, step, plan, held, watching,
               ipc, ifile, pushes, otherVars, stores, crashes, contests, call, order, passLog,
               handled, started, deleted>>

\* main(), lines 32-53: the environment is read, the request name and the
\* info are made; "return 1", "return 2".
HookStart(p) ==
    /\ hook[p].pc = "idle"
    /\ \E e \in PushEvents :
          LET h == [hook[p] EXCEPT !.time = e.time, !.user = e.user, !.repo = e.repo] IN
          hook' = [hook EXCEPT ![p] =
                     IF ~e.repo.set \/ ~e.user.set THEN Return(h, 1)
                     ELSE IF e.repo.segs = <<"">> \/ e.user.segs = <<"">> THEN Return(h, 2)
                     ELSE [h EXCEPT !.pc = "dump",
                                    !.name = RequestName(e.time, e.user.segs, e.repo.segs)]]
    /\ UNCHANGED <<mailbox, mlock, events, written, overran, hookFrame>>

\* lines 55-58: yaml.safe_dump(info), or "return 3".
HookDump(p) ==
    /\ hook[p].pc = "dump"
    /\ \/ hook' = [hook EXCEPT ![p].pc = "lock",
                               ![p].yaml = YamlText(hook[p].user.segs, hook[p].repo.segs)]
       \/ hook' = [hook EXCEPT ![p] = Return(@, 3)]
    /\ UNCHANGED <<mailbox, mlock, events, written, overran, hookFrame>>

\* Faulty variant: a lock timeout is ignored and the file written anyway.
HookLockIgnoringTimeout(p) ==
    /\ hook[p].pc = "lock"
    /\ \/ /\ CanAcquire(mlock)
          /\ mlock' = HeldBy(p)
       \/ /\ CanTimeOut(mlock, p)
          /\ UNCHANGED mlock
    /\ hook' = [hook EXCEPT ![p].pc = "open"]
    /\ UNCHANGED <<mailbox, events, written, overran, hookFrame>>

\* lines 60-68: lock.lock(timeout=_lock_timeout), or "return 4".
HookLock(p) ==
    /\ hook[p].pc = "lock"
    /\ \/ /\ CanAcquire(mlock)
          /\ mlock' = HeldBy(p)
          /\ hook' = [hook EXCEPT ![p].pc = "open"]
       \/ /\ CanTimeOut(mlock, p)
          /\ hook' = [hook EXCEPT ![p] = Return(@, 4)]
          /\ UNCHANGED mlock
    /\ UNCHANGED <<mailbox, events, written, overran, hookFrame>>

\* line 72: open(request_path, "w") creates the file, or empties the one
\* that is there; or it raises, and "return 5" is pending.
HookOpen(p) ==
    /\ hook[p].pc = "open"
    /\ \/ /\ mailbox' = [mailbox EXCEPT ![hook[p].name] = EmptyFile]
          /\ hook' = [hook EXCEPT ![p].pc = "write", ![p].created = TRUE]
       \/ /\ hook' = [hook EXCEPT ![p].pc = "unlock", ![p].fail = TRUE]
          /\ UNCHANGED mailbox
    /\ UNCHANGED <<mlock, events, written, overran, hookFrame>>

\* lines 72-75: stream.write(yaml_info) and the close of the with block
\* (IN_CLOSE_WRITE if watched); or the write raises, the file is closed as
\* it is, and "return 5" is pending.
HookWrite(p) ==
    /\ hook[p].pc = "write"
    /\ \/ /\ mailbox' = [mailbox EXCEPT ![hook[p].name] = hook[p].yaml]
          /\ written' = Append(written, hook[p].name)
          /\ hook' = [hook EXCEPT ![p].pc = "unlock", ![p].wrote = TRUE]
       \/ /\ hook' = [hook EXCEPT ![p].pc = "unlock", ![p].fail = TRUE]
          /\ UNCHANGED <<mailbox, written>>
    /\ events' = IF watching THEN events + 1 ELSE events
    /\ UNCHANGED <<mlock, overran, hookFrame>>

\* Faulty variant: the failure of the write is forgotten, main returns 0.
HookUnlockReturningZero(p) ==
    /\ hook[p].pc = "unlock"
    /\ mlock' = IF Owns(mlock, p) THEN Free ELSE mlock
    /\ hook' = [hook EXCEPT ![p] = Return(@, 0)]
    /\ UNCHANGED <<mailbox, events, written, overran, hookFrame>>

\* lines 76-85: "finally: lock.unlock()", its exception swallowed; then the
\* pending "return 5", or "return 0".
HookUnlock(p) ==
    /\ hook[p].pc = "unlock"
    /\ mlock' = IF Owns(mlock, p) THEN Free ELSE mlock
    /\ hook' = [hook EXCEPT ![p] = Return(@, IF @.fail THEN 5 ELSE 0)]
    /\ UNCHANGED <<mailbox, events, written, overran, hookFrame>>

\* ----------------------------------------------------------------- other
\* Another process starts "with SafeUpdater() as updater".
OtherStart ==
    /\ opc = "idle"
    /\ others < MaxOther
    /\ EnvLeft
    /\ others' = others + 1
    /\ opc' = "lock"
    /\ UNCHANGED <<mailbox, mlock, rlock, wpc, files, idx, req, outcome, step,
                   plan, held, watching, events, ingestVars, stores, crashes, contests, call, written,
                   order, passLog, handled, started, deleted, overran>>

\* __enter__: the lock is taken, or TimeOutError ends the attempt.
OtherEnter ==
    /\ opc = "lock"
    /\ \/ /\ CanAcquire(rlock)
          /\ rlock' = HeldBy("other")
          /\ opc' = "update"
       \/ /\ CanTimeOut(rlock, "other")
          /\ opc' = "idle"
          /\ UNCHANGED rlock
    /\ UNCHANGED <<mailbox, mlock, wpc, files, idx, req, outcome, step, plan, held,
                   watching, events, ingestVars, others, stores, crashes, contests, call, written,
                   order, passLog, handled, started, deleted, overran>>

\* Its update action: updater.update_repo of a contest that is not active
\* (_update_safely, lines 193-207).
OtherUpdate ==
    /\ opc = "update"
    /\ tree' = ApplyTree(Op("sync", InactiveContest), tree)
    /\ opc' = "exit"
    /\ UNCHANGED <<mailbox, mlock, rlock, wpc, files, idx, req, outcome, step,
                   plan, held, watching, events, ingestVars, others, db, crashes, contests, call,
                   written, order, passLog, handled, started, deleted, overran>>

\* __exit__ unlocks.
OtherLeave ==
    /\ opc = "exit"
    /\ rlock' = IF Owns(rlock, "other") THEN Free ELSE rlock
    /\ overran' = overran \ {"other"}
    /\ opc' = "idle"
    /\ UNCHANGED <<mailbox, mlock, wpc, files, idx, req, outcome, step, plan, held,
                   watching, events, ingestVars, others, stores, crashes, contests, call, written,
                   order, passLog, handled, started, deleted>>

\* ------------------------------------------------------------------ time
\* The mailbox lease passes its lifetime (_requests_lock_lifetime).
MailboxLeaseExpires ==
    /\ mlock.owner # "none"
    /\ ~mlock.expired
    /\ mlock' = Expired(mlock)
    /\ overran' = overran \cup ({mlock.owner} \cap Pushers)
    /\ UNCHANGED <<mailbox, rlock, wpc, files, idx, req, outcome, step, plan, held,
                   watching, events, ingestVars, otherVars, stores, crashes, contests, call, written, order,
                   passLog, handled, started, deleted>>

\* The repository lease passes its lifetime (LOCK_LIFETIME) while its
\* holder, if alive, is still inside the with block.
RepoLeaseExpires ==
    /\ rlock.owner # "none"
    /\ ~rlock.expired
    /\ rlock' = Expired(rlock)
    /\ overran' = overran \cup ({rlock.owner} \cap {"worker", "other"})
    /\ UNCHANGED <<mailbox, mlock, wpc, files, idx, req, outcome, step, plan, held,
                   watching, events, ingestVars, otherVars, stores, crashes, contests, call, written, order,
                   passLog, handled, started, deleted>>

Next ==
    \/ ListRequests
    \/ HandleRequest
    \/ ReadRequest
    \/ UnlockAndValidate
    \/ EnterUpdater
    \/ UpdateStep
    \/ LeaveUpdater
    \/ DeleteRequest
    \/ Sleep
    \/ AddWatch
    \/ ProcessEvent
    \/ CrashRestart
    \/ Push
    \/ IngestLock
    \/ IngestWrite
    \/ IngestUnlock
    \/ OtherStart
    \/ OtherEnter
    \/ OtherUpdate
    \/ OtherLeave
    \/ MailboxLeaseExpires
    \/ RepoLeaseExpires

Spec == Init /\ [][Next]_vars

\* ------------------------------------------------ the locks under fairness
\* The worker, its crash and restart, another updater and the passing of
\* time, without pushes: the runs in which a lock holder dies.
LockNext ==
    \/ ListRequests
    \/ HandleRequest
    \/ ReadRequest
    \/ UnlockAndValidate
    \/ EnterUpdater
    \/ UpdateStep
    \/ LeaveUpdater
    \/ DeleteRequest
    \/ Sleep
    \/ AddWatch
    \/ CrashRestart
    \/ OtherStart
    \/ OtherEnter
    \/ OtherUpdate
    \/ OtherLeave
    \/ MailboxLeaseExpires
    \/ RepoLeaseExpires

\* A live process goes on running (each step of the single-threaded worker
\* and of the other updater returns: lock() returns or raises once its
\* timeout has passed), and time passes for every lease.  Nothing forces a
\* crash or the arrival of another updater.
LockFairness ==
    /\ WF_vars(ListRequests)
    /\ WF_vars(HandleRequest)
    /\ WF_vars(ReadRequest)
    /\ WF_vars(UnlockAndValidate)
    /\ WF_vars(EnterUpdater)
    /\ WF_vars(UpdateStep)
    /\ WF_vars(LeaveUpdater)
    /\ WF_vars(DeleteRequest)
    /\ WF_vars(Sleep)
    /\ WF_vars(AddWatch)
    /\ WF_vars(OtherEnter)
    /\ WF_vars(OtherUpdate)
    /\ WF_vars(OtherLeave)
    /\ WF_vars(MailboxLeaseExpires)
    /\ WF_vars(RepoLeaseExpires)

LockSpec == Init /\ [][LockNext]_vars /\ LockFairness

\* ------------------------------------------------ the hook and the worker
\* Two pushers running the hook at any timing, the worker draining the
\* mailbox, and the mailbox lease passing its lifetime.
HookNext ==
    \/ \E p \in Pushers : HookStart(p)
    \/ \E p \in Pushers : HookDump(p)
    \/ \E p \in Pushers : HookLock(p)
    \/ \E p \in Pushers : HookOpen(p)
    \/ \E p \in Pushers : HookWrite(p)
    \/ \E p \in Pushers : HookUnlock(p)
    \/ ListRequests
    \/ HandleRequest
    \/ ReadRequest
    \/ UnlockAndValidate
    \/ EnterUpdater
    \/ UpdateStep
    \/ LeaveUpdater
    \/ DeleteRequest
    \/ Sleep
    \/ AddWatch
    \/ ProcessEvent
    \/ MailboxLeaseExpires

\* The worker is started on an empty mailbox.
HookInit == Init /\ ListDir(mailbox) = {}

HookSpec == HookInit /\ [][HookNext]_vars

\* ------------------------------------------- one request, any configuration
\* The repositories a valid request can name.
UpdateRepos == AllRepos \ {UnknownRepo}

\* The worker is started with one request in the mailbox, for any
\* repository, with any set of active contests in its configuration, any
\* clone tree, and a database that holds the first contest or is empty.
UpdateInit ==
    /\ \E r \in UpdateRepos :
          mailbox = [n \in Names |-> IF n = 1 THEN RequestInfo("joe", r) ELSE Absent]
    /\ contests \in SUBSET {ActiveContest, SecondContest}
    /\ \E c \in SUBSET UpdateRepos : tree = [cloned |-> c, generated |-> {}]
    /\ db \in {EmptyDb, ImportContest(EmptyDb, ActiveContest)}
    /\ mlock = Free
    /\ rlock = Free
    /\ wpc = "list"
    /\ files = <<>>
    /\ idx = 0
    /\ req = NoRequest
    /\ outcome = "none"
    /\ step = 0
    /\ plan = <<>>
    /\ held = {}
    /\ watching = FALSE
    /\ events = 0
    /\ ipc = "idle"
    /\ ifile = NoFile
    /\ pushes = 0
    /\ hook = [p \in Pushers |-> IdleHook]
    /\ opc = "idle"
    /\ others = 0
    /\ crashes = 0
    /\ written = <<1>>
    /\ order = <<>>
    /\ passLog = <<>>
    /\ handled = [n \in Names |-> 0]
    /\ started = [n \in Names |-> 0]
    /\ deleted = {}
    /\ overran = {}
    /\ call = NoCall

\* The worker alone: no push, no crash, no other updater, no lease expiry.
UpdateNext ==
    \/ ListRequests
    \/ HandleRequest
    \/ ReadRequest
    \/ UnlockAndValidate
    \/ EnterUpdater
    \/ UpdateStep
    \/ LeaveUpdater
    \/ DeleteRequest
    \/ Sleep
    \/ AddWatch

UpdateSpec == UpdateInit /\ [][UpdateNext]_vars

\* ------------------------------------------------ the functions, called directly
\* Everything but the clone tree, the database and the call.
libFrame == <<mailbox, mlock, rlock, wpc, files, idx, req, outcome, step, held,
              watching, events, ingestVars, otherVars, crashes, written, order,
              passLog, handled, started, deleted, overran, plan, contests>>

\* The worker has been constructed and has done nothing; the mailbox is
\* empty and nobody holds a lock.
WorkerAtStart ==
    /\ mailbox = [n \in Names |-> Absent]
    /\ mlock = Free
    /\ rlock = Free
    /\ wpc = "list"
    /\ files = <<>>
    /\ idx = 0
    /\ req = NoRequest
    /\ outcome = "none"
    /\ step = 0
    /\ plan = <<>>
    /\ held = {}
    /\ watching = FALSE
    /\ events = 0
    /\ ipc = "idle"
    /\ ifile = NoFile
    /\ pushes = 0
    /\ hook = [p \in Pushers |-> IdleHook]
    /\ opc = "idle"
    /\ others = 0
    /\ crashes = 0
    /\ written = <<>>
    /\ order = <<>>
    /\ passLog = <<>>
    /\ handled = [n \in Names |-> 0]
    /\ started = [n \in Names |-> 0]
    /\ deleted = {}
    /\ overran = {}
    /\ contests = ACTIVE_CONTESTS

\* Paths are texts, cut where the cases below differ.
\* self.dir = os.path.abspath(REQUESTS_DIR).
MailboxDir == <<"/var", "/requests">>

\* path.startswith(prefix)
StartsWith(path, prefix) ==
    Len(path) >= Len(prefix) /\ SubSeq(path, 1, Len(prefix)) = prefix

\* The file is in the directory or below it.
InsideDir(path, dir) == StartsWith(path, dir \o <<"/">>)

\* A record of the mailbox, a file of the sibling directory
\* /var/requests_old, a file elsewhere.
DeletePaths ==
    { MailboxDir \o <<"/", "a.yaml">>,
      MailboxDir \o <<"_old", "/", "a.yaml">>,
      <<"/tmp", "/", "a.yaml">> }

\* RequestHandler._delete_request(path), path already absolute.  fs: the
\* files that exist; removeFails: os.remove raises.  Gives the files left
\* and whether the worker has shut down (sys.exit(1)).
DeleteRequestPath(path, fs, dir, removeFails) ==
    IF path \notin fs THEN [fs |-> fs, exit |-> FALSE]
    ELSE IF ~StartsWith(path, dir) THEN [fs |-> fs, exit |-> TRUE]
    ELSE IF removeFails THEN [fs |-> fs, exit |-> FALSE]
    ELSE [fs |-> fs \ {path}, exit |-> FALSE]

\* The calls of _delete_request explored: any of the paths, any set of
\* them existing.
DeleteCalls ==
    { [fn |-> "_delete_request", pc |-> "idle", path |-> p, fs0 |-> f, fs |-> f,
       exit |-> FALSE] : p \in DeletePaths, f \in SUBSET DeletePaths }

CallDeleteRequest ==
    /\ call.fn = "_delete_request"
    /\ call.pc = "idle"
    /\ \E removeFails \in BOOLEAN :
          LET r == DeleteRequestPath(call.path, call.fs, MailboxDir, removeFails) IN
          call' = [call EXCEPT !.pc = "done", !.fs = r.fs, !.exit = r.exit]
    /\ UNCHANGED <<libFrame, stores>>

\* Submissions 1 and 2 are the autotester's, 3 is joe's; all to task sum
\* of contest finals.
SubOwner(i) == IF i = 3 THEN "joe" ELSE "autotester"
SubIds == 1..3
Sub(i, result) ==
    [id |-> i, contest |-> "finals", task |-> "sum", user |-> SubOwner(i),
     result |-> result]

\* The databases remove_submissions is called on: joe and his participation
\* are there; the autotester, its participation, the contest and the task
\* may be missing; each submission is missing, without a result, with a
\* result that has no score, or scored.
RemoveDbs ==
    { [users |-> {[name |-> "joe", pw |-> "j"]}
                 \cup (IF hasUser THEN {[name |-> "autotester", pw |-> "t"]} ELSE {}),
       contests |-> IF hasContest THEN {"finals"} ELSE {},
       parts |-> {<<"finals", "joe">>}
                 \cup (IF hasPart THEN {<<"finals", "autotester">>} ELSE {}),
       tasks |-> IF hasTask THEN {<<"finals", "sum">>} ELSE {<<"semis", "sum">>},
       subs |-> {Sub(i, f[i]) : i \in {j \in SubIds : f[j] # "absent"}}] :
      hasUser \in BOOLEAN, hasContest \in BOOLEAN, hasPart \in BOOLEAN,
      hasTask \in BOOLEAN,
      f \in [SubIds -> {"absent", "none", "unscored", "scored"}] }

RemoveCalls ==
    { [fn |-> "remove_submissions", pc |-> "idle", contest |-> "finals",
       task |-> "sum", user |-> u, ret |-> "none", db0 |-> EmptyDb] : u \in {"autotester", "joe"} }

CallRemoveSubmissions ==
    /\ call.fn = "remove_submissions"
    /\ call.pc = "idle"
    /\ LET r == RemoveSubmissions(db, call.contest, call.task, call.user) IN
       /\ db' = r.db
       /\ call' = [call EXCEPT !.pc = "done", !.ret = r.ret, !.db0 = db]
    /\ UNCHANGED <<libFrame, tree>>

\* The users files: joe's password in the file is not the one the database
\* may hold for him.
UsersFiles == {<<>>, <<Alice>>, <<JoeInFile>>, <<Alice, JoeInFile>>, <<JoeInFile, Alice>>}

\* The databases users are added to: joe, alice and contest finals may be
\* there, and those who are there may participate in finals.
UsersDbs ==
    { [EmptyDb EXCEPT !.users = us, !.contests = cs, !.parts = ps] :
        us \in SUBSET {[name |-> "joe", pw |-> "j"], Alice},
        cs \in SUBSET {"finals"},
        ps \in SUBSET {<<"finals", "joe">>, <<"finals", "alice">>} }

\* How often the same call is repeated.
MaxRuns == 2

AddUsersCalls ==
    { [fn |-> f, pc |-> "idle", infos |-> i, contest |-> c, runs |-> 0, ret |-> "none",
       first |-> "none", init |-> EmptyDb, db0 |-> EmptyDb, added |-> <<>>] :
        f \in {"add_users", "add_new_users"}, i \in UsersFiles,
        c \in {"finals", "semis"} }

\* The parts of a users database are about users and contests it holds.
WellFormedDb(d) ==
    \A p \in d.parts : p[1] \in d.contests /\ p[2] \in UserNames(d)

\* add_users(users_info, contest_name), then once more.
CallAddUsers ==
    /\ call.fn = "add_users"
    /\ call.runs < MaxRuns
    /\ LET r == AddUsers(db, call.infos, call.contest) IN
       /\ db' = r.db
       /\ call' = [call EXCEPT !.pc = "done", !.runs = @ + 1, !.ret = "ok",
                               !.first = IF call.runs = 0 THEN "ok" ELSE @,
                               !.init = IF call.runs = 0 THEN db ELSE @,
                               !.db0 = db,
                               !.added = r.parts]
    /\ UNCHANGED <<libFrame, tree>>

\* updater.add_new_users(users_file, ..), then once more.
CallAddNewUsers ==
    /\ call.fn = "add_new_users"
    /\ call.runs < MaxRuns
    /\ \E failAt \in 0..Len(call.infos) :
          LET r == AddNewUsers(db, call.infos, failAt) IN
          /\ db' = r.db
          /\ call' = [call EXCEPT !.pc = "done", !.runs = @ + 1, !.ret = r.ret,
                                  !.first = IF call.runs = 0 THEN r.ret ELSE @,
                                  !.init = IF call.runs = 0 THEN db ELSE @,
                                  !.db0 = db]
    /\ UNCHANGED <<libFrame, tree>>

\* The calls of TaskSandbox.execute(task_dir) that are to be made.
ExecuteCalls ==
    [fn : {"execute"}, pc : {"call"}, task : {ActiveTask}, env : SandboxEnvs,
     ret : {"none"}, log : {<<>>}]

\* TaskSandbox.execute(task_dir)
CallExecute ==
    /\ call.fn = "execute"
    /\ call.pc = "call"
    /\ LET r == Execute(call.env) IN
       /\ call' = ExecuteCall(call.task, call.env, r)
       /\ tree' = IF Generated(call.env, r)
                  THEN ApplyTree(Op("generate", call.task), tree) ELSE tree
    /\ UNCHANGED <<libFrame, db>>

RECURSIVE RunOps(_, _, _, _)
\* The operations run in order until one raises.  failAt: the position of
\* the operation whose command fails, 0 when none does.
RunOps(ops, t, d, failAt) ==
    IF ops = <<>> THEN [ret |-> "ok", tree |-> t, db |-> d, left |-> <<>>]
    ELSE IF (failAt = 1 /\ CanFail(Head(ops))) \/ ~CanSucceed(Head(ops), t, d)
    THEN [ret |-> "raise", tree |-> t, db |-> d, left |-> ops]
    ELSE RunOps(Tail(ops), ApplyTree(Head(ops), t), ApplyDb(Head(ops), d),
                IF failAt = 0 THEN 0 ELSE failAt - 1)

\* The same database with the task sum renamed to old.
Retask(d) ==
    [d EXCEPT !.tasks = {<<x[1], IF x[2] = "sum" THEN "old" ELSE x[2]>> : x \in @},
              !.subs = {[x EXCEPT !.task = "old"] : x \in @}]

\* The databases auto_submit is called on: those of remove_submissions,
\* for the task with a solution and for the task without.
AutoSubmitDbs == RemoveDbs \cup {Retask(d) : d \in RemoveDbs}

\* updater.auto_submit("finals", task) for either task.
AutoSubmitCalls ==
    { [fn |-> "auto_submit", pc |-> "call", contest |-> ActiveContest, task |-> t,
       ret |-> "none", ops |-> <<>>, done |-> 0, ext |-> FALSE, db0 |-> EmptyDb] :
        t \in AllTasks }

\* The call runs to its end or to the first operation that raises.
CallAutoSubmit ==
    /\ call.fn = "auto_submit"
    /\ call.pc = "call"
    /\ LET ops == AutoSubmit(call.contest, call.task) IN
       \E failAt \in 0..Len(ops) :
          LET r == RunOps(ops, tree, db, failAt) IN
          /\ db' = r.db
          /\ tree' = r.tree
          /\ call' = [call EXCEPT !.pc = "done", !.ret = r.ret, !.ops = ops,
                                  !.done = Len(ops) - Len(r.left),
                                  !.ext = failAt # 0, !.db0 = db]
    /\ UNCHANGED libFrame

\* The names of the tasks the manifest of a contest lists.
ManifestNames(contest) == {ShortName(t) : t \in SeqRange(ManifestTasks(contest))}

\* The databases update_contest is called on.  The contest may be there,
\* with any of its manifest's tasks; the autotester may be there, and may
\* participate in the contest; it may have one submission to task sum,
\* in evaluation or scored.  joe is there with a password of his own.
ContestDbs(contest) ==
    { [users |-> {[name |-> "joe", pw |-> "j"]}
                 \cup (IF hasUser THEN {[name |-> Autotester, pw |-> "t"]} ELSE {}),
       contests |-> IF inContest THEN {ShortName(contest)} ELSE {},
       parts |-> IF hasPart THEN {<<ShortName(contest), Autotester>>} ELSE {},
       tasks |-> {<<ShortName(contest), t>> : t \in ts},
       subs |-> IF sub = "absent" THEN {}
                ELSE {[id |-> 1, contest |-> ShortName(contest), task |-> "sum",
                       user |-> Autotester, result |-> sub]}] :
      hasUser \in BOOLEAN, inContest \in BOOLEAN, hasPart \in BOOLEAN,
      ts \in SUBSET ManifestNames(contest), sub \in {"absent", "none", "scored"} }

\* A submission is to a task of its contest by a participant; a
\* participation is of a user in a contest; a task is in a contest.
WellFormedContestDb(d) ==
    /\ WellFormedDb(d)
    /\ \A x \in d.tasks : x[1] \in d.contests
    /\ \A x \in d.subs : <<x.contest, x.task>> \in d.tasks /\ <<x.contest, x.user>> \in d.parts

\* get_contest_tasks(contest_name): the names of the tasks of the contest,
\* as pairs with the contest; it raises when the contest is not found, and
\* when the session or the query fails (dbFault).
GetContestTasks(d, contest_name, dbFault) ==
    IF dbFault \/ contest_name \notin d.contests
    THEN [ret |-> "raise", tasks |-> {}]
    ELSE [ret |-> "ok", tasks |-> {x \in d.tasks : x[1] = contest_name}]

\* update_contest: "try: existing_tasks = set(get_contest_tasks(
\* contest_name)) except Exception: existing_tasks = set()".
ExistingTasks(d, contest, dbFault) ==
    LET r == GetContestTasks(d, ShortName(contest), dbFault) IN
    IF r.ret = "raise" THEN {} ELSE r.tasks

\* updater.update_contest(contest, True, True, True, update_users,
\* auto_submit, auto_submit_new), then once more with the same arguments.
UpdateContestCalls ==
    { [fn |-> "update_contest", pc |-> "call", contest |-> c, updateUsers |-> u,
       autoFor |-> a, autoNew |-> n, runs |-> 0, ret |-> "none", prev |-> "none",
       ops |-> <<>>, done |-> 0, ext |-> FALSE, scored |-> FALSE,
       dbFault |-> FALSE, existing |-> {}, db0 |-> EmptyDb] :
        c \in {ActiveContest, InactiveContest}, u \in BOOLEAN,
        a \in SUBSET AllTasks, n \in BOOLEAN }

\* The call runs to its end or to the first operation that raises.
\* failAt: the operation whose command fails; dbFault: the query of the
\* contest's tasks fails for a reason of the database's.
CallUpdateContest ==
    /\ call.fn = "update_contest"
    /\ call.runs < MaxRuns
    /\ \E dbFault \in BOOLEAN :
          LET existing == ExistingTasks(db, call.contest, dbFault)
              ops == ContestOps(call.contest, call.updateUsers, call.autoFor,
                                call.autoNew, AllTasks \ tree.cloned, existing) IN
          \E failAt \in 0..Len(ops) :
             LET r == RunOps(ops, tree, db, failAt) IN
             /\ db' = r.db
             /\ tree' = r.tree
             /\ call' = [call EXCEPT !.pc = "done", !.runs = @ + 1, !.ret = r.ret,
                                     !.prev = call.ret, !.ops = ops,
                                     !.done = Len(ops) - Len(r.left),
                                     !.ext = failAt # 0 \/ dbFault,
                                     !.scored = FALSE,
                                     !.dbFault = dbFault,
                                     !.existing = existing,
                                     !.db0 = db]
    /\ UNCHANGED libFrame

\* EvaluationService scores a submission between two calls.
Score ==
    /\ call.fn = "update_contest"
    /\ call.runs \in 1..(MaxRuns - 1)
    /\ \E x \in db.subs :
          /\ NotScored(x)
          /\ db' = [db EXCEPT !.subs = (@ \ {x}) \cup {[x EXCEPT !.result = "scored"]}]
    /\ call' = [call EXCEPT !.pc = "call", !.scored = TRUE]
    /\ UNCHANGED <<libFrame, tree>>

\* ------------------------------------------------ paths of the clone tree
\* CLONE_DIR of the configuration.
CloneDir == <<"home", "clones">>

\* The text of a file name, cut where the names below differ.
NameText(name) == IF name = "clones_old" THEN <<"clones", "_old">> ELSE <<name>>

RECURSIVE PathText(_)
\* The text of an absolute path given by its segments.
PathText(segs) ==
    IF segs = <<>> THEN <<>>
    ELSE <<"/">> \o NameText(Head(segs)) \o PathText(Tail(segs))

\* os.path.join(CLONE_DIR, repo), the repo string split at "/".
JoinPath(dir, repo) == dir \o repo

RECURSIVE Normalize(_, _)
\* os.path.abspath of an absolute path: every ".." segment takes the
\* segment before it away.  done: the segments normalised so far.
Normalize(done, segs) ==
    IF segs = <<>> THEN done
    ELSE IF Head(segs) = ".."
    THEN Normalize(IF done = <<>> THEN <<>> ELSE SubSeq(done, 1, Len(done) - 1),
                   Tail(segs))
    ELSE Normalize(Append(done, Head(segs)), Tail(segs))

AbsPath(segs) == Normalize(<<>>, segs)

\* One git command and the directory it works on.
Git(cmd, dir) == [cmd |-> cmd, dir |-> dir]

\* SafeUpdater.clone_repo(repo): the sanity check is
\* "repo_path.startswith(CLONE_DIR)".
CloneRepo(repo) ==
    LET repo_path == AbsPath(JoinPath(CloneDir, repo)) IN
    IF ~StartsWith(PathText(repo_path), PathText(CloneDir))
    THEN [ret |-> "raise", git |-> <<>>]
    ELSE [ret |-> "ok", git |-> <<Git("clone", repo_path)>>]

\* SafeUpdater.update_repo(repo, allow_clone).  dirs: the directories that
\* exist; the system resolves the ".." of the joined path when it is asked
\* os.path.isdir and os.chdir.  A directory that exists is fetched and
\* reset without any check of where it is.
UpdateRepo(repo, allowClone, dirs) ==
    LET repo_path == JoinPath(CloneDir, repo) IN
    IF AbsPath(repo_path) \notin dirs
    THEN IF allowClone THEN CloneRepo(repo) ELSE [ret |-> "raise", git |-> <<>>]
    ELSE [ret |-> "ok",
          git |-> <<Git("fetch", AbsPath(repo_path)), Git("reset", AbsPath(repo_path))>>]

\* _validate_request, the check of the repository: the text before the
\* first "/" is one of the three types.
ValidRepo(repo) == repo # <<>> /\ RepoType(repo) \in {"tasks", "contests", "users"}

\* The repo strings of the requests explored: contests/finals,
\* tasks/../contests/finals, contests/../../other,
\* contests/../../clones_old, and other/finals, which is not valid.
RepoStrings ==
    { ActiveContest,
      <<"tasks", "..", "contests", "finals">>,
      <<"contests", "..", "..", "other">>,
      <<"contests", "..", "..", "clones_old">>,
      <<"other", "finals">> }

\* The calls of update_repo explored: as the worker makes them for a
\* request that was validated, any of the directories existing.
UpdateRepoCalls ==
    { [fn |-> "update_repo", pc |-> "call", repo |-> r, allowClone |-> a,
       dirs |-> d, ret |-> "none", git |-> <<>>] :
        r \in {x \in RepoStrings : ValidRepo(x)}, a \in BOOLEAN,
        d \in SUBSET {AbsPath(JoinPath(CloneDir, x)) : x \in RepoStrings} }

\* updater.update_repo(repo, allow_clone)
CallUpdateRepo ==
    /\ call.fn = "update_repo"
    /\ call.pc = "call"
    /\ LET r == UpdateRepo(call.repo, call.allowClone, call.dirs) IN
       call' = [call EXCEPT !.pc = "done", !.ret = r.ret, !.git = r.git]
    /\ UNCHANGED <<libFrame, tree, db>>

\* ------------------------------------------------------- add_submissions
\* How many items a call of add_submissions is given at most.
MaxItems == 2

\* One entry of a submission dictionary: whether its formatted file name
\* is an element of the task's submission format, and whether its path is
\* a file.
Entries == [inFormat : BOOLEAN, isFile : BOOLEAN]

\* The items explored: the empty dictionary, a good entry, an entry
\* outside the format, an entry whose path is no file, and a good entry
\* together with one whose path is no file.
ItemKinds ==
    { {},
      {[inFormat |-> TRUE, isFile |-> TRUE]},
      {[inFormat |-> FALSE, isFile |-> TRUE]},
      {[inFormat |-> TRUE, isFile |-> FALSE]},
      {[inFormat |-> TRUE, isFile |-> TRUE], [inFormat |-> TRUE, isFile |-> FALSE]} }

\* The validation of one item: "if format_file_name not in elements:
\* raise", "if not os.path.isfile(path): raise".
ValidItem(item) == \A e \in item : e.inFormat /\ e.isFile

\* Faulty variant: each item is validated when its turn to be added
\* comes, so that the items before the first invalid one are added.
ItemsAddedUntilInvalid(items) ==
    LET bad == {i \in DOMAIN items : ~ValidItem(items[i])}
        upTo == IF bad = {} THEN Len(items)
                ELSE (CHOOSE i \in bad : \A j \in bad : i <= j) - 1 IN
    SelectSeq(SubSeq(items, 1, upTo), LAMBDA item : item # {})

\* add_submissions, the two loops: all items are validated first; only
\* then the second loop adds those that are not empty ("if not
\* submission_dict: continue").
ItemsAdded(items) ==
    IF \E i \in DOMAIN items : ~ValidItem(items[i]) THEN <<>>
    ELSE SelectSeq(items, LAMBDA item : item # {})

\* add_submissions(contest_name, task_name, username, items).  failAt: the
\* submission whose storing or commit fails, 0 when none does.  Gives the
\* database and the ids EvaluationService was notified of
\* (rs.new_submission after each commit).
AddSubmissionItems(d, contest, task, user, items, failAt) ==
    IF ~Found(d, contest, task, user) THEN [ret |-> "raise", db |-> d, notified |-> <<>>]
    ELSE LET toAdd == ItemsAdded(items)
             n == IF failAt = 0 THEN Len(toAdd) ELSE failAt - 1 IN
         [ret |-> IF failAt # 0 \/ \E i \in DOMAIN items : ~ValidItem(items[i])
                  THEN "raise" ELSE "ok",
          db |-> AddSubmissions(d, contest, task, user, n).db,
          notified |-> [i \in 1..n |-> NextId(d) + i - 1]]

RECURSIVE SeqsUpTo(_, _)
\* The sequences over a set of at most n elements.
SeqsUpTo(S, n) ==
    IF n = 0 THEN {<<>>}
    ELSE LET shorter == SeqsUpTo(S, n - 1) IN
         shorter \cup {Append(q, x) : q \in shorter, x \in S}

\* The calls of add_submissions explored: for the autotester, on task sum
\* of finals, any items.
AddSubmissionsCalls ==
    { [fn |-> "add_submissions", pc |-> "call", contest |-> "finals", task |-> "sum",
       user |-> Autotester, items |-> q, ret |-> "none", notified |-> <<>>,
       ext |-> FALSE, db0 |-> EmptyDb] : q \in SeqsUpTo(ItemKinds, MaxItems) }

\* The databases of these calls: those of remove_submissions that hold at
\* most the first submission.
AddSubmissionsDbs == {d \in RemoveDbs : d.subs \subseteq {Sub(1, "scored")}}

\* add_submissions(contest_name, task_name, username, items)
CallAddSubmissions ==
    /\ call.fn = "add_submissions"
    /\ call.pc = "call"
    /\ \E failAt \in 0..Len(ItemsAdded(call.items)) :
          LET r == AddSubmissionItems(db, call.contest, call.task, call.user,
                                      call.items, failAt) IN
          /\ db' = r.db
          /\ call' = [call EXCEPT !.pc = "done", !.ret = r.ret,
                                  !.notified = r.notified,
                                  !.ext = failAt # 0, !.db0 = db]
    /\ UNCHANGED <<libFrame, tree>>

\* One function is called, on any of the inputs drawn for it.
LibInit ==
    /\ WorkerAtStart
    /\ tree = [cloned |-> {ActiveContest, InactiveContest, UsersRepo}, generated |-> {}]
    /\ \/ call \in DeleteCalls /\ db = EmptyDb
       \/ call \in RemoveCalls /\ db \in RemoveDbs
       \/ call \in AddUsersCalls /\ db \in {d \in UsersDbs : WellFormedDb(d)}
       \/ call \in ExecuteCalls /\ db = EmptyDb
       \/ call \in UpdateRepoCalls /\ db = EmptyDb
       \/ call \in AddSubmissionsCalls /\ db \in AddSubmissionsDbs
       \/ call \in AutoSubmitCalls /\ db \in AutoSubmitDbs
       \/ /\ call \in UpdateContestCalls
          /\ db \in {d \in ContestDbs(call.contest) : WellFormedContestDb(d)}

LibNext ==
    \/ CallUpdateContest
    \/ CallUpdateRepo
    \/ CallAddSubmissions
    \/ Score
    \/ CallExecute
    \/ CallAutoSubmit
    \/ CallDeleteRequest
    \/ CallRemoveSubmissions
    \/ CallAddUsers
    \/ CallAddNewUsers

LibSpec == LibInit /\ [][LibNext]_vars

\* ---------------------------------------------------------------- claims
HandleEvents(log) == SelectSeq(log, LAMBDA e : e.ev = "handle")
DeleteEvents(log) == SelectSeq(log, LAMBDA e : e.ev = "delete")
NamesOf(log) == [i \in DOMAIN log |-> log[i].name]

\* The names handled so far in the running pass.
PassOrder == NamesOf(HandleEvents(passLog))

NonDecreasing(s) == \A i, j \in DOMAIN s : i < j => s[i] <= s[j]
Increasing(s) == \A i, j \in DOMAIN s : i < j => s[i] < s[j]

\* The pass is over: the worker is back in (or about to enter) the
\* notifier loop.
PassDone == wpc \in {"addwatch", "watch"}

\* A loaded request that is malformed in the spec's sense: not a mapping,
\* user or repo missing, a value that is no string, an unrecognized type.
IsMalformed(r) ==
    \/ r.ty = "list"
    \/ /\ r.ty = "map"
       /\ \/ "user" \notin r.keys
          \/ "repo" \notin r.keys
          \/ r.user.ty # "str"
          \/ r.repo.ty # "str"
          \/ r.repo.segs[1] \notin {"tasks", "contests", "users"}

\* The current request failed reading or validation.
FailedBeforeActing == outcome = "read_error" \/ req = ReadError \/ IsMalformed(req)

InUpdate(p) == IF p = "worker" THEN wpc = "update" ELSE opc = "update"

\* C1 (as stated): one worker instance never handles a record after it has
\* handled a record with a larger filename, whatever the write order.
C1_HandledInOrder == NonDecreasing(order)

\* C1 (amended): within one drain pass the records of the snapshot are
\* handled in strictly increasing filename order.
C1_PassInOrder == Increasing(PassOrder)

\* A pass that handled r1 < r2 < r3 which were written as r3, r2, r1.
C1_Witness == PassOrder = <<1, 2, 3>> /\ written = <<3, 2, 1>>

\* C2 (as stated): no two processes run their update actions at the same
\* time, however long an update action lasts.
C2_MutualExclusion == ~(InUpdate("worker") /\ InUpdate("other"))

\* C2 (amended): a process running its update action whose lease has not
\* passed its lifetime owns the repository lock, so two processes run their
\* update actions at the same time only after the lease of one of them
\* expired.
C2_ExclusionWithinLifetime ==
    \A p \in {"worker", "other"} :
        (InUpdate(p) /\ p \notin overran) => rlock = HeldBy(p)

\* The worker updates inside a live lease while the other process waits.
C2_Witness ==
    /\ InUpdate("worker")
    /\ step > 0
    /\ opc = "lock"
    /\ rlock = HeldBy("worker")

\* C3: every record written from worker startup on is handled without a
\* further push: when the worker waits in the notifier loop with no event
\* queued, no record is left in the mailbox.
C3_NothingLeftWhenIdle ==
    (wpc = "watch" /\ events = 0 /\ ipc = "idle") => ListDir(mailbox) = {}

C5_NoMutationBeforeValidation ==
    FailedBeforeActing =>
        /\ wpc \notin {"act", "update", "exit"}
        /\ "repo" \notin held
        /\ rlock.owner # "worker"
        /\ step = 0
        /\ plan = <<>>

\* A record of an unrecognized repository type has been rejected.
C5_Witness ==
    /\ wpc = "sleep"
    /\ outcome = "invalid"
    /\ req.ty = "map"
    /\ req.repo.segs = UnknownRepo

C8_OneAtATimeWithCooling ==
    \A k \in DOMAIN passLog :
        /\ passLog[k].ev = <<"handle", "delete", "sleep">>[((k - 1) % 3) + 1]
        /\ ((k - 1) \div 3) + 1 \in DOMAIN files
        /\ passLog[k].name = files[((k - 1) \div 3) + 1]

\* The second record of a pass is being handled.
C8_Witness == Len(passLog) = 4 /\ wpc = "update"

\* C9: the worker never holds the mailbox lock and the repository lock at
\* the same time; from _act on the mailbox lock is not the worker's.
C9_MailboxLockOnlyWhileReading ==
    /\ held # {"mailbox", "repo"}
    /\ wpc \in {"act", "update", "exit"} =>
          ("mailbox" \notin held /\ mlock.owner # "worker")

\* An ingestion holds the mailbox lock and has written its record while
\* the worker's update is in flight.
C9_Witness ==
    /\ wpc = "update"
    /\ step > 0
    /\ ipc = "unlock"
    /\ mlock = HeldBy("ingest")
    /\ mailbox[ifile.name] = ifile.content

\* C10: every operation the worker runs on the clone tree or the database
\* for a request runs between its acquisition of the repository lock and
\* its release.
C10_OperationsInsideLock ==
    [][(opc' = opc /\ (step' > step \/ tree' # tree \/ db' # db))
          => ("repo" \in held /\ "repo" \in held' /\ wpc = "update")]_vars

\* The worker has synchronized the pushed contest inside the lock.
C10_Witness ==
    /\ wpc = "update"
    /\ "repo" \in held
    /\ rlock = HeldBy("worker")
    /\ step = 1
    /\ plan[1] = Op("sync", ActiveContest)

\* C11: releasing a lock whose lease has expired is not an error at the
\* worker's call sites: a record whose read returned a valid request is
\* acted upon, and an update action whose operations all succeeded does not
\* end as a failure.  (The ingestion's call site swallows the exception of
\* its unlock: IngestUnlock.)
C11_ReleaseAfterExpiryIsNoError ==
    wpc \in {"delete", "sleep"} =>
        /\ ValidRequest(req) => outcome # "read_error"
        /\ (plan # <<>> /\ step = Len(plan)) => outcome = "done"

Abandoned(lock) == lock.owner = "dead" /\ lock.expired

Returned(p) == hook[p].pc = "done"

\* The request a hook run was to record, as the worker should parse it.
Pushed(p) == MapOf({"user", "repo"}, StrVal(hook[p].user.segs), StrVal(hook[p].repo.segs))

\* Only the file of this name differs between the two mailboxes.
OnlyFileChanged(n, box, box2) == \A m \in Names : m # n => box2[m] = box[m]

\* C14: the exit status of the hook tells the cause: 1 iff GL_USER or
\* GL_REPO is absent, 2 iff both are there and one is empty, 3 only when the
\* dump failed, 4 exactly when the lock was not acquired, 5 iff opening or
\* writing the file failed, 0 iff the record was written; with 1 to 4 the
\* run created no file, a run creates a file only after it took the lock,
\* and a run that has returned does nothing more.
C14_ExitStatusTellsCause ==
    /\ [](\A p \in Pushers : Returned(p) =>
            /\ hook[p].rc \in 0..5
            /\ hook[p].rc = 1 <=> (~hook[p].user.set \/ ~hook[p].repo.set)
            /\ hook[p].rc = 2 <=> /\ hook[p].user.set /\ hook[p].repo.set
                                  /\ (hook[p].user.segs = <<"">> \/ hook[p].repo.segs = <<"">>)
            /\ hook[p].rc = 3 => hook[p].yaml = Absent
            /\ hook[p].rc \in {0, 4, 5} => hook[p].yaml # Absent
            /\ hook[p].rc \in 1..4 => (~hook[p].created /\ ~hook[p].wrote)
            /\ hook[p].rc = 5 <=> hook[p].fail
            /\ hook[p].rc = 0 <=> hook[p].wrote)
    /\ [][\A p \in Pushers :
            (hook[p].pc = "lock" /\ hook'[p].pc # "lock")
               => IF mlock' = HeldBy(p)
                  THEN hook'[p].pc = "open"
                  ELSE Returned(p)' /\ hook'[p].rc = 4 /\ mlock' = mlock]_vars
    /\ [][\A p \in Pushers :
            (Returned(p) => hook'[p] = hook[p])
            /\ ((hook'[p] # hook[p] /\ mailbox' # mailbox)
                  => /\ hook[p].pc \in {"open", "write"}
                     /\ hook'[p].created
                     /\ OnlyFileChanged(hook[p].name, mailbox, mailbox'))
            /\ ((~hook[p].wrote /\ hook'[p].wrote)
                  => mailbox'[hook[p].name] = hook[p].yaml)]_vars

\* One push was recorded and returned 0 while the other, kept from the
\* lock, returned 4 and left no file.
C14_Witness ==
    /\ hook["p1"].rc = 0
    /\ mailbox[hook["p1"].name] = hook["p1"].yaml
    /\ hook["p2"].rc = 4
    /\ hook["p2"].name # hook["p1"].name
    /\ mailbox[hook["p2"].name] = Absent

\* The pushes that got their record written.
Recorded(p) == hook[p].wrote

\* A name with a "." in it.
HasDot(segs) == \E i \in DOMAIN segs : Len(Chars(segs[i])) > 1

\* The write of a run puts into its file, and into no other, a text that
\* parses to the (user, repo) of the push.
WriteRoundTrips ==
    [][\A p \in Pushers :
          (~hook[p].wrote /\ hook'[p].wrote)
             => /\ LoadRequest(mailbox'[hook[p].name]) = Pushed(p)
                /\ OnlyFileChanged(hook[p].name, mailbox, mailbox')]_vars

\* C15 (as stated): every recorded push has a record file of its own whose
\* content parses to its (user, repo): no two recorded pushes share a file
\* name, whatever their timing.
C15_OneFilePerPush ==
    \A p, q \in Pushers : (p # q /\ Recorded(p) /\ Recorded(q)) => hook[p].name # hook[q].name

\* C15 (amended): the text a push writes parses to its (user, repo), and
\* two pushes have different file names when their seconds differ, or when
\* their user or repository differ and no repository has a "." in it (no
\* user has a "_" here).
C15_OneFilePerDistinctName ==
    /\ WriteRoundTrips
    /\ [](\A p, q \in Pushers :
            (/\ hook[p].name # 0
             /\ hook[q].name # 0
             /\ \/ hook[p].time # hook[q].time
                \/ /\ <<hook[p].user, hook[p].repo>> # <<hook[q].user, hook[q].repo>>
                   /\ ~HasDot(hook[p].repo.segs)
                   /\ ~HasDot(hook[q].repo.segs))
            => hook[p].name # hook[q].name)

\* Two pushes of the same second by different users, one of them with a
\* name that looks like a number, each with its own record in the mailbox.
C15_Witness ==
    /\ Recorded("p1")
    /\ Recorded("p2")
    /\ hook["p1"].time = hook["p2"].time
    /\ hook["p1"].user.segs = <<"123">>
    /\ hook["p2"].user.segs = <<"joe">>
    /\ hook["p1"].name # hook["p2"].name
    /\ \A p \in Pushers : LoadRequest(mailbox[hook[p].name]) = Pushed(p)

\* A hook run between open() and the end of its write.
Writing(p) == hook[p].pc = "write"

\* C16 (as stated): a record file is written entirely while its hook run
\* owns the mailbox lock, and the worker never parses a record that a run
\* has created and not finished writing.
C16_WriteUnderLock ==
    \A p \in Pushers :
        /\ Writing(p) => mlock.owner = p
        /\ wpc = "read" => ~(Writing(p) /\ hook[p].name = Cur)

\* C16 (amended): a hook run whose lease has not passed its lifetime owns
\* the mailbox lock from open() to unlock(); the worker, owning the lock,
\* parses a record that a run has not finished writing only after the lease
\* of that run passed its lifetime.
C16_WriteUnderLiveLease ==
    \A p \in Pushers :
        /\ (hook[p].pc \in {"open", "write", "unlock"} /\ p \notin overran)
              => mlock = HeldBy(p)
        /\ (wpc = "read" /\ mlock.owner = "worker" /\ Writing(p) /\ hook[p].name = Cur)
              => p \in overran

\* The worker has listed a record that its hook run has created and not
\* finished writing, and is about to ask for the lock that run holds.
C16_Witness ==
    /\ wpc = "handle"
    /\ Writing("p1")
    /\ hook["p1"].name = Cur
    /\ mailbox[Cur] = EmptyFile
    /\ mlock = HeldBy("p1")

\* The worker has left _update_safely for the request it read.
UpdateOver == wpc \in {"exit", "delete", "sleep"} /\ ValidRequest(req)

\* The update failed for a reason outside the program: a command or a file
\* operation failed, or a lock was not obtained.
FailedOutside == outcome \in {"update_error", "lock_timeout", "read_error"}

\* The operations of the plan that ran to their end.
Performed == SeqRange(SubSeq(plan, 1, step))

\* The repository the request in hand names.
Pushed_repo == req.repo.segs

\* The worker enters _update_safely.
Entering == wpc = "act" /\ wpc' = "update"

\* C17: after the update for a push to an active contest, unless a command
\* failed, every operation of the update has run: the contest is
\* synchronized and imported, its users are added and its manifest tasks
\* are in the database.
C17_ActiveContestImported ==
    (/\ UpdateOver
     /\ RepoType(Pushed_repo) = "contests"
     /\ Pushed_repo \in contests
     /\ ~FailedOutside)
    => /\ outcome = "done"
       /\ {Op("sync", Pushed_repo), Op("import", Pushed_repo)} \subseteq Performed
       /\ \A i \in DOMAIN UsersFile(Pushed_repo) :
             UsersFile(Pushed_repo)[i].name \in UserNames(db)
       /\ \A t \in SeqRange(ManifestTasks(Pushed_repo)) :
             <<ShortName(Pushed_repo), ShortName(t)>> \in db.tasks

\* C18: the update for a push to a contest that is not active is the
\* synchronization of that contest and nothing else: no step of it changes
\* the database, generates a task or touches another working copy, and
\* when it is done the contest is on disk.
C18_InactiveContestOnlySynced ==
    /\ [][(Entering /\ RepoType(Pushed_repo) = "contests" /\ Pushed_repo \notin contests)
            => plan' = <<Op("sync", Pushed_repo)>>]_vars
    /\ [][(wpc = "update" /\ RepoType(Pushed_repo) = "contests"
           /\ Pushed_repo \notin contests)
            => /\ db' = db
               /\ tree'.generated = tree.generated
               /\ tree'.cloned \subseteq tree.cloned \cup {Pushed_repo}]_vars
    /\ []((UpdateOver /\ RepoType(Pushed_repo) = "contests" /\ Pushed_repo \notin contests
           /\ outcome = "done")
            => (step = 1 /\ Pushed_repo \in tree.cloned))

\* With two active contests, the push to a third contest has been handled:
\* its working copy is the only one on disk, nothing is in the database.
C18_Witness ==
    /\ wpc = "delete"
    /\ outcome = "done"
    /\ Pushed_repo = InactiveContest
    /\ contests = {ActiveContest, SecondContest}
    /\ tree = [cloned |-> {InactiveContest}, generated |-> {}]
    /\ db = EmptyDb

\* C19: after the update for a push to the users repository, unless a
\* command failed, the users repository has been synchronized and every
\* active contest has been imported, whatever the active contests are.
C19_UsersPushSyncsUsers ==
    (/\ UpdateOver
     /\ RepoType(Pushed_repo) = "users"
     /\ ~FailedOutside)
    => /\ outcome = "done"
       /\ Op("sync", UsersRepo) \in Performed
       /\ \A c \in contests : Op("import", c) \in Performed

\* No active contest lists the task.
Unused(task, active) == \A c \in active : task \notin SeqRange(ManifestTasks(c))

\* C20: the update for a push to a task that no active contest lists reads
\* the manifests of the active contests and does nothing else: no step of
\* it changes the clone tree or the database.
C20_UnusedTaskSkipped ==
    /\ [][(Entering /\ RepoType(Pushed_repo) = "tasks" /\ Unused(Pushed_repo, contests))
            => plan' = ManifestOps(SeqOf(contests))]_vars
    /\ [][(wpc = "update" /\ RepoType(Pushed_repo) = "tasks"
           /\ Unused(Pushed_repo, contests))
            => (tree' = tree /\ db' = db)]_vars

\* With two active contests on disk, the push to a task that only the
\* inactive contest lists has been handled: the task is not on disk.
C20_Witness ==
    /\ wpc = "delete"
    /\ outcome = "done"
    /\ Pushed_repo = UnusedTask
    /\ contests = {ActiveContest, SecondContest}
    /\ step = 2
    /\ UnusedTask \notin tree.cloned

\* How often an operation is among those that ran to their end.
TimesPerformed(o) == Cardinality({i \in 1..step : plan[i] = o})

\* C21: after the update for a push to a task that active contests list,
\* unless a command failed, the task has been synchronized and generated
\* exactly once, every active contest listing it has been imported, and no
\* operation touched a contest that is not active.
C21_TaskPushUpdatesItsContests ==
    (/\ UpdateOver
     /\ RepoType(Pushed_repo) = "tasks"
     /\ ~Unused(Pushed_repo, contests)
     /\ ~FailedOutside)
    => /\ outcome = "done"
       /\ TimesPerformed(Op("generate", Pushed_repo)) = 1
       /\ \A c \in contests :
             Pushed_repo \in SeqRange(ManifestTasks(c)) => Op("import", c) \in Performed
       /\ \A o \in Performed : RepoType(o.repo) = "contests" => o.repo \in contests

\* C30: _delete_request removes nothing but the file it was given, and
\* that only if it is inside the mailbox directory; for a path outside it
\* (a sibling directory whose name starts with the mailbox's included)
\* nothing is removed and, the file being there, the worker shuts down.
C30_DeleteOnlyInsideMailbox ==
    (call.fn = "_delete_request" /\ call.pc = "done")
    => /\ call.fs0 \ call.fs \subseteq {call.path}
       /\ call.fs \subseteq call.fs0
       /\ ~InsideDir(call.path, MailboxDir) =>
             /\ call.fs = call.fs0
             /\ call.path \in call.fs0 => call.exit

\* The submissions a finished call of remove_submissions was about.
Targets == UserTaskSubmissions(call.db0, call.contest, call.task, call.user)

\* C23: remove_submissions is all or nothing: when one of the user's
\* submissions for the task has no result or no score it returns "not
\* removed" and the database is as before, even if others are scored;
\* when it returns "removed" all of them are gone (or there were none) and
\* nothing else has changed; when it raises the database is as before.
C23_RemoveAllOrNothing ==
    (call.fn = "remove_submissions" /\ call.pc = "done")
    => /\ call.ret \in {"removed", "not_removed", "raise"}
       /\ call.ret # "removed" => db = call.db0
       /\ call.ret = "not_removed" <=>
             /\ IsAutotester(call.user)
             /\ Found(call.db0, call.contest, call.task, call.user)
             /\ \E x \in Targets : NotScored(x)
       /\ call.ret = "removed" =>
             /\ \A x \in Targets : ~NotScored(x)
             /\ db = [call.db0 EXCEPT !.subs = @ \ Targets]

\* One submission of the autotester is scored and the other still has no
\* score: the call returned "not removed", both are still there.
C23_Witness ==
    /\ call.fn = "remove_submissions"
    /\ call.pc = "done"
    /\ call.ret = "not_removed"
    /\ Sub(1, "scored") \in db.subs
    /\ Sub(2, "unscored") \in db.subs

\* A call that adds users has returned.
UsersAdded == call.fn \in {"add_users", "add_new_users"} /\ call.pc = "done"

SandboxSteps == {"mkdir", "chmod", "init", "run", "cleanup"}

\* C27: when the freshness check of an existing task directory answers that
\* the generated output is current, execute returns normally and has done
\* nothing: the sandbox was not initialised, run or cleaned up, the output
\* directory was not created or changed, and nothing was generated.
C27_CurrentOutputIsLeftAlone ==
    (call.fn = "execute" /\ call.pc = "done" /\ call.env.taskDir
       /\ call.env.fresh = "current")
    => /\ call.ret = "ok"
       /\ \A i \in DOMAIN call.log : call.log[i] \notin SandboxSteps
       /\ call.task \notin tree.generated

C27_Witness ==
    /\ call.fn = "execute" /\ call.pc = "done"
    /\ call.env.taskDir /\ call.env.fresh = "current"
    /\ ~call.env.genDir /\ call.env.run = 1
    /\ call.ret = "ok" /\ call.log = <<>>

\* ---- C26
\* The processor was run in the sandbox and returned non-zero.
GeneratorFailed ==
    /\ call.fn = "execute"
    /\ \E i \in DOMAIN call.log : call.log[i] = "run"
    /\ call.env.run # 0

\* The worker is about to generate the task of the request in hand.
Generating ==
    /\ wpc = "update"
    /\ step < Len(plan)
    /\ plan[step + 1] = Op("generate", Pushed_repo)

\* C26: a non-zero return code of the processor run in the sandbox makes
\* execute raise; in the worker the exception ends the update at that
\* operation with an error, and after the update for a task push whose
\* generation failed nothing but manifest readings and synchronizations
\* has run: no import, no auto-submission, no other step of a contest
\* update, and the database is as it was.
C26_GeneratorFailureAborts ==
    /\ [](GeneratorFailed => call.ret = "raise")
    /\ [][(Generating /\ GeneratorFailed')
            => /\ wpc' = "exit"
               /\ outcome' = "update_error"
               /\ step' = step
               /\ db' = db]_vars
    /\ []((UpdateOver /\ RepoType(Pushed_repo) = "tasks" /\ GeneratorFailed)
            => /\ outcome = "update_error"
               /\ step < Len(plan)
               /\ plan[step + 1] = Op("generate", Pushed_repo)
               /\ \A o \in Performed : o.op \in {"manifest", "sync"})

\* With two active contests listing it, the push to a task has been
\* handled: the sandbox was initialised, the processor returned non-zero,
\* the cleanup went well, and the update ended in an error.
C26_Witness ==
    /\ wpc = "delete"
    /\ Pushed_repo = ActiveTask
    /\ contests = {ActiveContest, SecondContest}
    /\ GeneratorFailed
    /\ call.env.init = 0 /\ call.env.cleanup = 0
    /\ call.ret = "raise"
    /\ outcome = "update_error"
    /\ ActiveTask \notin tree.generated

\* ---- C25
\* The operations that ran or were begun: those performed and the one that
\* raised.
Attempted ==
    {plan[i] : i \in {j \in 1..Len(plan) : j <= step + 1}}

\* The contests a push to the repository calls update_contest for.
ContestsOf(repo, active) ==
    CASE RepoType(repo) = "users" -> active
      [] RepoType(repo) = "tasks" -> SeqRange(TaskContests(repo, active))
      [] OTHER -> {}

\* update_contest was called for the contest.
Called(c) ==
    \E o \in Attempted :
        o.repo = c /\ o.op \in {"typeerror", "addusers", "gettasks", "import"}

\* The update ended in an exception raised by a call of update_contest.
ContestUpdateRaised ==
    /\ outcome \in {"type_error", "update_error"}
    /\ step < Len(plan)
    /\ RepoType(plan[step + 1].repo) = "contests"
    /\ plan[step + 1].op # "manifest"

\* C25: after the update for a users push or a task push in which the
\* update of one contest raised, update_contest has still been called for
\* every other contest the push concerns.
C25_SiblingContestsStillUpdated ==
    (/\ UpdateOver
     /\ RepoType(Pushed_repo) \in {"users", "tasks"}
     /\ ContestUpdateRaised)
    => \A c \in ContestsOf(Pushed_repo, contests) : Called(c)

\* ---- C24
\* The operations of the call that ran to their end.
Ran == SeqRange(SubSeq(call.ops, 1, call.done))

\* The autotester's submissions to the task of the call, in a database.
AutoSubmissions(d) ==
    UserTaskSubmissions(d, ShortName(call.contest), ShortName(call.task), Autotester)

\* remove_submissions finds its objects and a submission it must not delete.
Refused(d) ==
    /\ Found(d, ShortName(call.contest), ShortName(call.task), Autotester)
    /\ \E x \in AutoSubmissions(d) : NotScored(x)

\* C24: auto_submit for a task without solutions changes nothing in the
\* database, removes nothing, and returns normally unless creating the
\* processor failed.  For a task with solutions it removes the autotester's
\* previous submissions to the task before it adds the new ones; when a
\* previous submission is not scored it raises and the database is as it
\* was; when it returns normally every previous submission is gone, there
\* is one new submission without result per solution, and every other
\* submission is untouched.
C24_AutoSubmitReplacesOrRefuses ==
    (call.fn = "auto_submit" /\ call.pc = "done")
    => LET prev == AutoSubmissions(call.db0)
           now == AutoSubmissions(db)
           n == Solutions(call.task)
       IN /\ n = 0 =>
               /\ db = call.db0
               /\ \A o \in Ran : o.op \notin {"remove", "submit"}
               /\ ~call.ext => call.ret = "ok"
          /\ (n > 0 /\ Refused(call.db0)) => (call.ret = "raise" /\ db = call.db0)
          /\ (n > 0 /\ now \ prev # {}) => prev \cap now = {}
          /\ \A i, j \in 1..call.done :
               (call.ops[i].op = "submit" /\ call.ops[j].op = "remove") => j < i
          /\ (n > 0 /\ call.ret = "ok") =>
               /\ prev \cap now = {}
               /\ Cardinality(now) = n
               /\ \A x \in now : x.result = "none"
          /\ db.subs \ now = call.db0.subs \ prev
          /\ [db EXCEPT !.subs = {}] = [call.db0 EXCEPT !.subs = {}]

\* Two scored submissions of the autotester and joe's unscored one: the
\* call returned, the two are gone, a new one is there, joe's is kept.
C24_Witness ==
    /\ call.fn = "auto_submit" /\ call.pc = "done"
    /\ call.task = ActiveTask
    /\ call.ret = "ok"
    /\ {Sub(1, "scored"), Sub(2, "scored"), Sub(3, "unscored")} \subseteq call.db0.subs
    /\ Sub(3, "unscored") \in db.subs
    /\ Cardinality(db.subs) = 2

\* The autotester's first submission is still in evaluation: the call
\* raised and both submissions are kept.
C24_WitnessRefused ==
    /\ call.fn = "auto_submit" /\ call.pc = "done"
    /\ call.task = ActiveTask
    /\ ~call.ext
    /\ call.ret = "raise"
    /\ {Sub(1, "none"), Sub(2, "scored")} \subseteq db.subs

\* ---- C22
\* The autotester's submissions to a task of the contest of the call.
AutoSubs(d, task) ==
    UserTaskSubmissions(d, ShortName(call.contest), ShortName(task), Autotester)

\* The task is one the call has to auto-submit: it is in the manifest, and
\* it is new to the contest while auto_submit_new is set, or its path is in
\* auto_submit.
Selected(task) ==
    /\ task \in SeqRange(ManifestTasks(call.contest))
    /\ \/ call.autoNew /\ <<ShortName(call.contest), ShortName(task)>> \notin call.db0.tasks
       \/ task \in call.autoFor

Observable(d) ==
    [d EXCEPT !.subs = {[contest |-> x.contest, task |-> x.task, user |-> x.user,
                         result |-> x.result] : x \in @}]

\* update_contest has been called again, with the same arguments, after a
\* call that returned normally, and no command failed in the second call.
RanAgain ==
    /\ call.fn = "update_contest" /\ call.pc = "done"
    /\ call.runs >= 2
    /\ call.prev = "ok"
    /\ ~call.ext

\* The manifest tasks the second call submits solutions for.
Resubmitted ==
    {t \in SeqRange(ManifestTasks(call.contest)) :
        t \in call.autoFor /\ Solutions(t) > 0}

\* C28 as stated: the second of two calls in a row, nothing having changed
\* in between, returns normally and leaves the database as it found it.
C28_SecondRunChangesNothing ==
    (RanAgain /\ ~call.scored)
    => (call.ret = "ok" /\ Observable(db) = Observable(call.db0))

\* C28: the second of two calls in a row leaves users, contests,
\* participations and contest tasks as it found them.  If auto_submit
\* names no manifest task with solutions, it returns normally and the
\* submissions are as they were too.  If it names one, the second call
\* raises and changes nothing while a submission of the first call is
\* not scored, and else replaces the scored submissions by new ones
\* without result.
C28_SecondRunIdempotentUnlessResubmitting ==
    RanAgain
    => /\ [db EXCEPT !.subs = {}] = [call.db0 EXCEPT !.subs = {}]
       /\ Resubmitted = {} => (call.ret = "ok" /\ db = call.db0)
       /\ \A t \in Resubmitted :
             /\ (\E x \in AutoSubs(call.db0, t) : NotScored(x))
                   => (call.ret = "raise" /\ db = call.db0)
             /\ call.ret = "ok" =>
                   /\ AutoSubs(call.db0, t) \cap AutoSubs(db, t) = {}
                   /\ Cardinality(AutoSubs(db, t)) = Solutions(t)
                   /\ \A x \in AutoSubs(db, t) : x.result = "none"

\* Contest practice was called with auto_submit_new and an empty list; the
\* first call submitted the solution of sum, which is still in evaluation;
\* the second call has returned normally without running auto_submit and
\* the database is as it found it.
C28_Witness ==
    /\ RanAgain
    /\ call.contest = InactiveContest
    /\ call.runs = 2
    /\ call.autoNew /\ call.autoFor = {}
    /\ call.ret = "ok"
    /\ ~call.scored
    /\ \E x \in AutoSubs(db, ActiveTask) : x.result = "none"
    /\ \A t \in AllTasks : Op("autosubmit", t) \notin Ran
    /\ db = call.db0

\* ---- C32
\* How many records of the snapshot the running pass has begun to handle.
Begun == IF wpc = "handle" THEN idx - 1 ELSE idx

\* C32: a pass lists the mailbox once: the snapshot holds exactly the
\* record files present at that moment, in increasing order of name; it
\* does not change until the next listing; the records the pass has
\* handled are, in order, the first ones of the snapshot, all of them when
\* the pass is over; so a record written after the listing is not handled
\* in that pass, and when it is handled it is in the snapshot of a later
\* one.
C32_PassHandlesItsSnapshot ==
    /\ [][(wpc = "list" /\ wpc' # "list")
            => /\ SeqRange(files') = {n \in Names : mailbox[n] # Absent}
               /\ Increasing(files')]_vars
    /\ [][(wpc # "list" /\ wpc' # "list") => files' = files]_vars
    /\ [](wpc # "list" =>
            /\ PassOrder = SubSeq(files, 1, Begun)
            /\ PassDone => PassOrder = files)
    /\ [][\A n \in Names :
            (wpc = "handle" /\ handled'[n] # handled[n]) => n \in SeqRange(files)]_vars

\* A pass over two records is over; a third record, written after the
\* listing under a smaller name than the last one handled, is still in the
\* mailbox and was not handled.
C32_Witness ==
    /\ PassDone
    /\ Len(files) = 2
    /\ PassOrder = files
    /\ \E n \in Names :
          /\ mailbox[n] # Absent
          /\ n \notin SeqRange(files)
          /\ n < files[2]
          /\ handled[n] = 0

\* ---- C33
\* The worker reads the record file in hand, or attempts its deletion.
ReadsOrDeletes ==
    \/ wpc = "read" /\ wpc' = "unlock"
    \/ wpc = "delete" /\ wpc' = "sleep"

\* C33: whenever the worker reads a record file or deletes one it holds
\* the mailbox lock.
C33_ReadAndDeleteUnderMailboxLock ==
    [][ReadsOrDeletes => "mailbox" \in held]_vars

\* ---- C37
\* The worker is inside "with SafeUpdater() as updater".
InWithBlock == wpc \in {"update", "exit"}

\* C37: outside the with block of _act the worker does not hold the
\* repository lock: it is released when the update has ended, whether it
\* returned or raised, before the record is deleted and the next one
\* handled; and when the acquisition timed out the lock is left as it is
\* and the worker goes on to the deletion without an unlock.
C37_RepoLockReleasedAfterUpdate ==
    /\ [](~InWithBlock => ("repo" \notin held /\ ~Owns(rlock, "worker")))
    /\ [][(wpc = "act" /\ outcome' = "lock_timeout")
            => (rlock' = rlock /\ wpc' = "delete")]_vars
    /\ [][(wpc = "exit" /\ wpc' = "delete") => ~Owns(rlock', "worker")]_vars

\* The update of a request raised and the with block has been left: the
\* repository lock is free and the record is about to be deleted.
C37_Witness ==
    /\ wpc = "delete"
    /\ outcome = "update_error"
    /\ started[Cur] = 1
    /\ step < Len(plan)
    /\ rlock = Free

\* ---- C35
\* How many times a step was made in a call of execute.
TimesRun(log, x) == Cardinality({i \in DOMAIN log : log[i] = x})

\* The step was made, and this is its place in the log of the call.
Place(log, x) == CHOOSE i \in DOMAIN log : log[i] = x

\* C35: in every call of execute the sandbox is initialised, run and
\* cleaned up at most once each; the run is made only after an
\* initialisation that returned zero; the cleanup is made exactly once
\* after every run, whatever the run returned, and never without a run;
\* after an initialisation that failed there is neither run nor cleanup
\* and the call raises; and a run that returned non-zero makes the call
\* raise also when the cleanup returned zero.
C35_SandboxLifecycle ==
    (call.fn = "execute" /\ call.pc = "done")
    => LET log == call.log
           e == call.env IN
       /\ \A x \in {"init", "run", "cleanup"} : TimesRun(log, x) <= 1
       /\ TimesRun(log, "run") = 1
            => /\ TimesRun(log, "init") = 1
               /\ Place(log, "init") < Place(log, "run")
               /\ e.init = 0
       /\ TimesRun(log, "cleanup") = TimesRun(log, "run")
       /\ TimesRun(log, "run") = 1 => Place(log, "run") < Place(log, "cleanup")
       /\ (TimesRun(log, "init") = 1 /\ e.init # 0)
            => /\ TimesRun(log, "run") = 0
               /\ TimesRun(log, "cleanup") = 0
               /\ call.ret = "raise"
       /\ (TimesRun(log, "run") = 1 /\ e.run # 0) => call.ret = "raise"

\* The processor returned non-zero, the cleanup after it returned zero,
\* and the call raised.
C35_Witness ==
    /\ call.fn = "execute" /\ call.pc = "done"
    /\ call.env.init = 0 /\ call.env.run # 0 /\ call.env.cleanup = 0
    /\ TimesRun(call.log, "run") = 1
    /\ TimesRun(call.log, "cleanup") = 1
    /\ call.ret = "raise"

\* The initialisation failed: nothing was run or cleaned up.
C35_WitnessInitFailed ==
    /\ call.fn = "execute" /\ call.pc = "done"
    /\ call.env.init # 0
    /\ TimesRun(call.log, "init") = 1
    /\ TimesRun(call.log, "run") = 0
    /\ call.ret = "raise"

\* ---- C34
\* The step of update_contest an operation belongs to, in the order of
\* the claim: 1 contest sync, 2 manifest load, 3 users sync, 4 user
\* addition, 5 generation of absent tasks, 6 query of the contest's
\* tasks, 7 import, 8 auto-submission.
StepOf(contest, o) ==
    CASE o.op = "sync" /\ o.repo = contest -> 1
      [] o.op = "manifest" -> 2
      [] o.op = "sync" /\ o.repo = UsersRepo -> 3
      [] o.op = "addusers" -> 4
      [] o.op = "sync" /\ RepoType(o.repo) = "tasks" -> 5
      [] o.op = "generate" -> 5
      [] o.op = "gettasks" -> 6
      [] o.op = "import" -> 7
      [] OTHER -> 8

\* The operations of a step among the first n of a call.
OfStep(contest, ops, n, k) == {i \in 1..n : StepOf(contest, ops[i]) = k}

\* update_contest has just been called and has ended.
ContestUpdateEnds ==
    /\ call'.fn = "update_contest"
    /\ call'.pc = "done"
    /\ call'.runs = call.runs + 1

\* C34: a call of update_contest makes its operations in the order
\* contest sync, manifest load, users sync (exactly when update_users),
\* user addition, clone and generation of exactly the manifest tasks that
\* are not on disk, query of the contest's tasks, import, auto-submission;
\* it raises exactly when an operation fails and makes none after it; a
\* call that did not get to the end of the import leaves contests, tasks
\* and submissions of the database as they were; and the tasks
\* auto-submitted as new are those the database did not hold for the
\* contest before the call (all of them when the query failed), although
\* the import has added them by then.
C34_FixedOrderStopsAtFirstFailure ==
    [][ContestUpdateEnds =>
        LET c == call'.contest
            ops == call'.ops
            n == call'.done
            len == Len(ops)
            before == {t \in SeqRange(ManifestTasks(c)) :
                          \/ call'.dbFault
                          \/ <<ShortName(c), ShortName(t)>> \notin db.tasks} IN
        /\ \A i, j \in 1..len : i < j => StepOf(c, ops[i]) <= StepOf(c, ops[j])
        /\ \A k \in {1, 2, 4, 6, 7} : Cardinality(OfStep(c, ops, len, k)) = 1
        /\ Cardinality(OfStep(c, ops, len, 3)) = IF call'.updateUsers THEN 1 ELSE 0
        /\ {ops[i].repo : i \in {j \in OfStep(c, ops, len, 5) : ops[j].op = "generate"}}
             = SeqRange(ManifestTasks(c)) \ tree.cloned
        /\ n \in 0..len
        /\ call'.ret = "ok" <=> n = len
        /\ call'.ret = "raise" <=> n < len
        /\ OfStep(c, ops, n, 7) = {}
             => /\ db'.contests = db.contests
                /\ db'.tasks = db.tasks
                /\ db'.subs = db.subs
        /\ OfStep(c, ops, n, 8) # {} => OfStep(c, ops, n, 7) # {}
        /\ \A t \in SeqRange(ManifestTasks(c)) :
              (\E i \in 1..len : ops[i] = Op("autosubmit", t))
                 <=> ((call'.autoNew /\ t \in before) \/ t \in call'.autoFor)
    ]_vars

\* A call with update_users that generated a task, imported the contest
\* that was not in the database, began the auto-submission of the new
\* task and failed at a later operation.
C34_Witness ==
    /\ call.fn = "update_contest" /\ call.pc = "done" /\ call.runs = 1
    /\ call.updateUsers /\ call.autoNew /\ call.autoFor = {}
    /\ call.db0.contests = {}
    /\ call.ret = "raise"
    /\ \E i \in 1..call.done : call.ops[i] = Op("import", call.contest)
    /\ \E i \in 1..call.done : call.ops[i] = Op("generate", ActiveTask)
    /\ \E i \in 1..call.done : call.ops[i] = Op("autosubmit", ActiveTask)
    /\ ShortName(call.contest) \in db.contests

\* A call that failed at the import: nothing was auto-submitted.
C34_WitnessImportFailed ==
    /\ call.fn = "update_contest" /\ call.pc = "done" /\ call.runs = 1
    /\ call.autoNew
    /\ call.ret = "raise"
    /\ call.done < Len(call.ops)
    /\ call.ops[call.done + 1] = Op("import", call.contest)
    /\ db.subs = call.db0.subs

\* ---- C38
\* C38: every git command update_repo runs for the repo string of a
\* validated request works on a directory inside the clone directory;
\* when the joined path resolves outside it the call raises without
\* having run git.
C38_GitStaysInsideCloneDir ==
    (call.fn = "update_repo" /\ call.pc = "done")
    => LET inside == InsideDir(PathText(AbsPath(JoinPath(CloneDir, call.repo))),
                               PathText(CloneDir)) IN
       /\ \A i \in DOMAIN call.git :
             InsideDir(PathText(call.git[i].dir), PathText(CloneDir))
       /\ ~inside => (call.ret = "raise" /\ call.git = <<>>)

\* What the sanity check of clone_repo does achieve: a repository that is
\* not on disk and whose path resolves outside the clone directory, and
\* not to a sibling whose name begins with the clone directory's, is
\* rejected before git is run.
C38_CloneElsewhereRejected ==
    (/\ call.fn = "update_repo" /\ call.pc = "done"
     /\ AbsPath(JoinPath(CloneDir, call.repo)) \notin call.dirs
     /\ ~StartsWith(PathText(AbsPath(JoinPath(CloneDir, call.repo))), PathText(CloneDir)))
    => (call.ret = "raise" /\ call.git = <<>>)

\* ---- C39
\* The calls of update_contest for a contest that the update of a task
\* push has made or begun: every call begins with the synchronization of
\* the contest, or raises TypeError before that.
CallsFor(c) ==
    {i \in 1..Len(plan) :
        i <= step + 1 /\ plan[i] \in {Op("sync", c), Op("typeerror", c)}}

\* C39: during and after the update for a task push, update_contest has
\* been called at most once for each active contest, whatever the number
\* of task entries of its manifest that have the path of the task.
C39_OneUpdatePerContest ==
    (/\ wpc \in {"update", "exit", "delete"}
     /\ ValidRequest(req)
     /\ RepoType(Pushed_repo) = "tasks")
    => \A c \in contests : Cardinality(CallsFor(c)) <= 1

\* The update for a push to tasks/sum is over; the only active contest
\* lists the task in two entries, so that _get_task_contests has returned
\* the contest twice; the task was generated and update_contest was called
\* for the contest, once.
C39_Witness ==
    /\ UpdateOver
    /\ Pushed_repo = ActiveTask
    /\ contests = {SecondContest}
    /\ TaskContests(Pushed_repo, contests) = <<SecondContest, SecondContest>>
    /\ Op("generate", ActiveTask) \in Performed
    /\ Cardinality(CallsFor(SecondContest)) = 1
    /\ outcome = "type_error"

\* ---- C40
\* The contest was in the database when update_contest was called.
ContestExisted ==
    /\ call.fn = "update_contest" /\ call.pc = "done"
    /\ ShortName(call.contest) \in call.db0.contests

\* The tasks the database held for the contest when the call began.
TasksBefore == {x \in call.db0.tasks : x[1] = ShortName(call.contest)}

\* C40: in a call of update_contest for a contest the database holds, the
\* set of existing tasks the call works with is the set of the contest's
\* tasks in the database, empty only if the contest has none; so
\* auto_submit is not run for a manifest task that was already in the
\* contest unless its path is in auto_submit.
C40_EmptyOnlyWhenContestMissing ==
    ContestExisted
    => /\ call.existing = TasksBefore
       /\ \A t \in SeqRange(ManifestTasks(call.contest)) :
             (<<ShortName(call.contest), ShortName(t)>> \in TasksBefore
                /\ t \notin call.autoFor)
             => Op("autosubmit", t) \notin Ran

\* What holds instead: the set is that of the database whenever the query
\* answers, and empty whenever get_contest_tasks raises, for a missing
\* contest or for any other reason.
C40_EmptyWheneverQueryRaises ==
    (call.fn = "update_contest" /\ call.pc = "done")
    => call.existing = IF call.dbFault \/ ~ContestExisted THEN {} ELSE TasksBefore

\* The database held contest finals with task sum; the query failed, the
\* import went well, and with auto_submit_new and an empty auto_submit
\* the call has submitted the solution of sum as if the task were new.
C40_ExistingTaskSubmittedAsNew ==
    /\ ContestExisted
    /\ call.contest = ActiveContest
    /\ call.dbFault
    /\ call.autoNew /\ call.autoFor = {}
    /\ <<"finals", "sum">> \in TasksBefore
    /\ call.ret = "ok"
    /\ Op("autosubmit", ActiveTask) \in Ran
    /\ \E x \in db.subs \ call.db0.subs : x.task = "sum" /\ x.user = Autotester

\* ---- C36
\* An item of the call names a file outside the submission format or a
\* path that is not a file.
SomeItemInvalid == \E i \in DOMAIN call.items : ~ValidItem(call.items[i])

\* C36: a call of add_submissions with an invalid item among its items,
\* wherever it stands, raises, leaves the database as it was and notifies
\* EvaluationService of nothing.  With all items valid, and nothing
\* failing, there is one new submission without result for every item
\* that is not empty, each notified once, in the order of their ids; and
\* whatever fails, only submissions that were added are notified.
C36_ValidatedBeforeAnyIsAdded ==
    (call.fn = "add_submissions" /\ call.pc = "done")
    => LET new == db.subs \ call.db0.subs IN
       /\ SomeItemInvalid
            => (call.ret = "raise" /\ db = call.db0 /\ call.notified = <<>>)
       /\ call.db0.subs \subseteq db.subs
       /\ SeqRange(call.notified) = {x.id : x \in new}
       /\ Len(call.notified) = Cardinality(new)
       /\ (~SomeItemInvalid /\ ~call.ext
             /\ Found(call.db0, call.contest, call.task, call.user))
            => /\ call.ret = "ok"
               /\ Cardinality(new)
                    = Cardinality({i \in DOMAIN call.items : call.items[i] # {}})
               /\ \A x \in new : x.result = "none" /\ x.user = call.user

\* A valid item is followed by one whose path is not a file; the user,
\* the contest, the participation and the task are in the database: the
\* call raised and nothing was added or notified.
C36_Witness ==
    /\ call.fn = "add_submissions" /\ call.pc = "done"
    /\ Len(call.items) = 2
    /\ call.items[1] = {[inFormat |-> TRUE, isFile |-> TRUE]}
    /\ call.items[2] = {[inFormat |-> TRUE, isFile |-> FALSE]}
    /\ Found(call.db0, call.contest, call.task, call.user)
    /\ call.ret = "raise"
    /\ db = call.db0
    /\ call.notified = <<>>

\* Two valid items: two submissions were added and notified.
C36_WitnessAdded ==
    /\ call.fn = "add_submissions" /\ call.pc = "done"
    /\ call.ret = "ok"
    /\ Len(call.notified) = 2
    /\ Cardinality(db.subs \ call.db0.subs) = 2

\* ---- C31
\* The manifest readings the update of the request in hand has made.
ManifestReadings == {i \in 1..step : i <= Len(plan) /\ plan[i].op = "manifest"}

\* C31: every manifest the update of a request reads is read after the
\* synchronization of its contest in the same update: a reading is
\* preceded, among the operations of the request, by the synchronization
\* of the contest it is the manifest of.
C31_ManifestReadAfterSync ==
    (wpc \in {"update", "exit", "delete"} /\ ValidRequest(req))
    => \A i \in ManifestReadings :
          \E j \in 1..(i - 1) : plan[j] = Op("sync", plan[i].repo)

\* What holds of update_contest itself: in a direct call the manifest is
\* read right after the synchronization of the contest.
C31_UpdateContestReadsAfterSync ==
    (call.fn = "update_contest" /\ call.pc = "done")
    => \A i \in DOMAIN call.ops :
          call.ops[i].op = "manifest"
          => (i > 1 /\ call.ops[i - 1] = Op("sync", call.ops[i].repo))

====
